---- MODULE Spec2Model ----
(***************************************************************************)
(* State-machine model of the Solana memecoin signals bot:                 *)
(*   - the newPool pipeline of MemecoinTradingBot (src/unnamed/part_002),  *)
(*   - TradingEngine's gate, cooldown and daily quota                      *)
(*     (src/src/twitter/twitterBot.js, lines 742-1184),                    *)
(*   - PoolMonitor's event intake (src/src/monitor/poolMonitor.js),        *)
(*   - TwitterBot's rate-limited sender (src/src/twitter/twitterBot.js,    *)
(*     lines 1-337).                                                       *)
(* Every async function is cut at its await points: one action runs the    *)
(* synchronous code between two awaits, as the Node.js event loop does.    *)
(* Times are in clock ticks; amounts are in lamports with the scaled       *)
(* LamportsPerSol.                                                         *)
(***************************************************************************)
EXTENDS Integers, Sequences, FiniteSets, Bags, TLC

\* ---------------------------------------------------------------- bounds
NumHandlers == 2        \* newPool handler invocations that may be in flight
MaxTime == 8            \* last clock tick explored
MaxOpportunities == 3   \* newPool events emitted in one run
MaxArrivals == 4        \* program-log callbacks delivered to the monitor in one run
MaxPayloads == 3        \* payloads handed to TwitterBot.postTweet in one run
TwitterHorizon == 6     \* last clock tick explored for the twitter bot
MaxFailures == 2        \* client.v2.tweet calls the API rejects in one run
MaxTextLen == 8         \* longest payload text handed to postTweet
MaxUpdateCalls == 2     \* updateConfig calls in one run
MaxMonitorCalls == 4    \* start and stop calls on the pool monitor in one run

\* ------------------------------------------- program constants (scaled)
LamportsPerSol == 1000       \* 1e9 in the source, scaled
MsPerSec == 2                \* 1000 in the source, scaled: ticks per second
DayMs == 7                   \* one calendar day in ticks
DefaultCooldownSec == 1      \* 300 in the source, scaled
DefaultRiskThreshold == 7
DefaultMinLiquidity == 10    \* SOL
DefaultMaxDailyTrades == 2   \* 10 in the source, scaled
DefaultMaxTradeMilliSol == 100  \* 0.1 SOL
ReserveMilliSol == 10        \* 0.01 SOL kept for fees
FloorMilliSol == 1           \* 0.001 SOL
minProcessInterval == 2      \* PoolMonitor: 1000 ms in the source, scaled
CacheThreshold == 2          \* PoolMonitor: 1000 identifiers in the source, scaled
tweetInterval == 2           \* TwitterBot: 60000 ms in the source, scaled
DrainPeriod == 2             \* TwitterBot: the queue is re-checked every 60000 ms
DefaultTweetBudget == 2      \* TwitterBot: 300 tweets per window in the source, scaled
RateWindow == 4              \* TwitterBot: 15 minutes in the source, scaled
MaxRetries == 3              \* TwitterBot: attempts at a queued tweet
TweetLimit == 6              \* TwitterBot: 280 characters in the source, scaled
TweetCut == 3                \* TwitterBot: 277 characters in the source, scaled

NaN == 0 - 1                 \* parseInt/parseFloat of an unset variable; undefined number
Undefined == "undefined"     \* an absent string field

Handlers == 1..NumHandlers
Days == 0..(MaxTime \div DayMs)

VARIABLES
    now,              \* Date.now(), in ticks
    env,              \* process.env, read-only after start
    config,           \* ConfigManager.config
    pc,               \* per newPool handler: the await it is suspended at
    signal,           \* per handler: poolData, then the signal built from it
    notifyCalls,      \* per handler: calls of twitterBot.postTweet made for it
    stats,            \* MemecoinTradingBot.stats
    lastTradeTime,    \* TradingEngine.lastTradeTime
    dailyTradeCount,  \* TradingEngine.dailyTradeCount (0 = no entry)
    cooldownPeriod,   \* TradingEngine.cooldownPeriod
    isPaused,         \* TradingEngine.isPaused
    engineStats,      \* TradingEngine.stats
    processedTransactions,  \* PoolMonitor.processedTransactions
    lastProcessTime,  \* PoolMonitor.lastProcessTime
    isRunning,        \* PoolMonitor.isRunning
    subscriptions,    \* PoolMonitor.subscriptions (the names subscribed)
    extracting,       \* per <<pool type, signature>>: extractPoolData calls in flight
    extractCount,     \* per signature: extractPoolData calls started so far
    emitted,          \* per signature: newPool events emitted so far
    arrivals,         \* log callbacks delivered so far
    lastArrival,      \* the latest pool-creation log delivered: [seq, sig, type]
    isInitialized,    \* TwitterBot.isInitialized
    tweetQueue,       \* TwitterBot.tweetQueue: sequence of [content, retries]
    isProcessingQueue,  \* TwitterBot.isProcessingQueue
    rateLimits,       \* TwitterBot.rateLimits.tweets: [remaining, resetTime], 0 = null
    lastTweetTime,    \* TwitterBot.lastTweetTime
    timers,           \* bag of pending setTimeout(postTweet) calls: [content, at]
    inflight,         \* bag of client.v2.tweet calls awaited: [content, caller, at]
    drain,            \* processQueuePeriodically: [pc, at, item]
    sent,             \* bag of tweets the API accepted: [content, at]
    submitted,        \* payloads handed to postTweet by the bot so far
    failures,         \* client.v2.tweet calls rejected so far
    unhandled,        \* rejected postTweet promises no handler received
    settled,          \* RiskAnalyzer.analyzePool: per factor, its settled promise
    analysis,         \* RiskAnalyzer.analyzePool: the call's position and result
    facts,            \* what the analyzer's lookups report about the pool scored
    boot,             \* MemecoinTradingBot.start: [pc, validation]
    order,            \* TradingEngine.calculateTradeParameters: its inputs and result
    text,             \* TwitterBot.postTweet: a payload and the text handed to the API
    wakeups,          \* bag of wake times of processQueuePeriodically timers beyond drain's
    shut,             \* TwitterBot.shutdown: "no", "draining", "returned" or "done"
    listing,          \* a mint checked against the blacklist: the inputs and the outcome
    timing,           \* analyzeMarketTiming at the wall clock: [status, hour, day, score, window]
    configured,       \* updateConfig: [calls made, keys the successful calls have set]
    registry          \* connection: [ids: subscription id per name, listeners on the connection, nextId, calls]

handlerVars == <<pc, signal, notifyCalls, stats>>
engineVars == <<lastTradeTime, dailyTradeCount, cooldownPeriod, isPaused, engineStats>>
configVars == <<env, config>>
monitorVars == <<processedTransactions, lastProcessTime, isRunning, subscriptions,
                 extracting, extractCount, emitted, arrivals, lastArrival>>
pipelineVars == <<configVars, handlerVars, engineVars>>
twitterVars == <<isInitialized, tweetQueue, isProcessingQueue, rateLimits,
                 lastTweetTime, timers, inflight, drain, sent, submitted, failures,
                 unhandled>>
analyzerVars == <<settled, analysis, facts>>
bootVars == <<boot>>
orderVars == <<order>>
textVars == <<text>>
shutdownVars == <<wakeups, shut>>
listVars == <<listing>>
timingVars == <<timing>>
configureVars == <<configured>>
registryVars == <<registry>>
vars == <<now, pipelineVars, monitorVars, twitterVars, analyzerVars, bootVars, orderVars,
          textVars, shutdownVars, listVars, timingVars, configureVars, registryVars>>

\* ---------------------------------------------------------- environment
\* process.env as the variables the gates read; NaN stands for "not set".
\* AUTO_TRADE_ENABLED and TEST_MODE are the result of  === 'true'.
EnvRecord(autoTrade, testMode, minLiquidity) ==
    [ AUTO_TRADE_ENABLED |-> autoTrade, TEST_MODE |-> testMode,
      RISK_THRESHOLD |-> DefaultRiskThreshold,
      MIN_LIQUIDITY |-> minLiquidity,
      COOLDOWN_PERIOD |-> NaN,
      MAX_DAILY_TRADES |-> DefaultMaxDailyTrades,
      MAX_TRADE_AMOUNT |-> NaN ]

EnvInputs ==
    { EnvRecord(TRUE, FALSE, DefaultMinLiquidity),
      EnvRecord(TRUE, TRUE, DefaultMinLiquidity),
      EnvRecord(FALSE, FALSE, DefaultMinLiquidity),
      EnvRecord(TRUE, FALSE, 0) }

\* JavaScript's  x || d  on numbers: NaN and 0 are falsy.
OrDefault(x, d) == IF x = NaN \/ x = 0 THEN d ELSE x

\* parseInt(process.env.X || 'd'): the default applies to an unset variable only.
ParseOr(x, d) == IF x = NaN THEN d ELSE x

loadConfig(e) ==
    [ AUTO_TRADE_ENABLED |-> e.AUTO_TRADE_ENABLED,
      TEST_MODE |-> e.TEST_MODE,
      RISK_THRESHOLD |-> ParseOr(e.RISK_THRESHOLD, DefaultRiskThreshold),
      MIN_LIQUIDITY |-> ParseOr(e.MIN_LIQUIDITY, DefaultMinLiquidity),
      COOLDOWN_PERIOD |-> ParseOr(e.COOLDOWN_PERIOD, DefaultCooldownSec),
      MAX_DAILY_TRADES |-> ParseOr(e.MAX_DAILY_TRADES, DefaultMaxDailyTrades) ]

\* ------------------------------------------------------ pipeline inputs
\* poolData records handed to the newPool handler.  The monitor's parsers set
\* poolId (both pool types) and coinMint (AMM_V4 only) and never set tokenMint
\* or liquidity; the richer records are what an event source that fills those
\* fields would emit.
PoolDataInputs ==
    { [type |-> "AMM_V4", poolId |-> "pool", coinMint |-> "mint",
       tokenMint |-> Undefined, liquidity |-> NaN],
      [type |-> "CLMM", poolId |-> "pool", coinMint |-> Undefined,
       tokenMint |-> Undefined, liquidity |-> NaN],
      [type |-> "AMM_V4", poolId |-> "pool", coinMint |-> "mint",
       tokenMint |-> "mint", liquidity |-> 20 * LamportsPerSol],
      [type |-> "AMM_V4", poolId |-> "pool", coinMint |-> "mint",
       tokenMint |-> "mint", liquidity |-> DefaultMinLiquidity] }

\* What analyzePool returns besides liquidity: the rounded score and the scam flag.
AnalysisInputs ==
    { [riskScore |-> 8, isScam |-> FALSE],
      [riskScore |-> 5, isScam |-> FALSE],
      [riskScore |-> 8, isScam |-> TRUE] }

\* Wallet balances getBalance may report, in lamports.
BalanceInputs == { 0, 5 * LamportsPerSol }

NoSignal ==
    [type |-> "none", poolId |-> Undefined, coinMint |-> Undefined,
     tokenMint |-> Undefined, liquidity |-> NaN, riskScore |-> 0, isScam |-> FALSE]

\* poolData.liquidity || 0
calculatePoolLiquidity(pd) == OrDefault(pd.liquidity, 0)

\* signal = { ...poolData, ...riskAnalysis }
MakeSignal(pd, a) ==
    [type |-> pd.type, poolId |-> pd.poolId, coinMint |-> pd.coinMint,
     tokenMint |-> pd.tokenMint, liquidity |-> calculatePoolLiquidity(pd),
     riskScore |-> a.riskScore, isScam |-> a.isScam]

\* formatTweet calls .slice on signal.poolId and signal.tokenMint: a TypeError
\* when either is undefined.
formatTweetThrows(s) == s.poolId = Undefined \/ s.tokenMint = Undefined

\* ------------------------------------------------------- trading engine
Today == now \div DayMs

isInCooldown == now - lastTradeTime < cooldownPeriod

maxDailyTrades == OrDefault(env.MAX_DAILY_TRADES, DefaultMaxDailyTrades)

hasExceededDailyLimit == dailyTradeCount[Today] >= maxDailyTrades

\* The error validateTrade throws, or "ok".
validateTrade(s) ==
    LET minRiskScore == OrDefault(env.RISK_THRESHOLD, DefaultRiskThreshold)
        minLiquidity == OrDefault(env.MIN_LIQUIDITY * LamportsPerSol,
                                  DefaultMinLiquidity * LamportsPerSol)
    IN  IF isInCooldown THEN "Trading is in cooldown period"
        ELSE IF hasExceededDailyLimit THEN "Daily trade limit exceeded"
        ELSE IF s.poolId = Undefined \/ s.coinMint = Undefined THEN "Invalid signal data"
        ELSE IF s.riskScore < minRiskScore THEN "Risk score too low"
        ELSE IF s.liquidity < minLiquidity THEN "Insufficient liquidity"
        ELSE IF s.isScam THEN "Token is flagged as scam or blacklisted"
        ELSE "ok"

\* 100 x the trade amount of calculateTradeParameters, in lamports:
\* min(maxTradeAmount, availableBalance * 0.9, signal.liquidity * 0.05).
Min3(a, b, c) == IF a <= b /\ a <= c THEN a ELSE IF b <= c THEN b ELSE c

\* Math.min without the bound of 5% of the pool's liquidity.
tradeAmountOf_NoLiquidityBound(maxTrade, liquidity, walletBalance) ==
    LET milli == LamportsPerSol \div 1000
        maxTradeAmount == IF maxTrade = NaN \/ maxTrade = 0
                          THEN DefaultMaxTradeMilliSol * milli
                          ELSE maxTrade * milli
        reserveAmount == ReserveMilliSol * milli
        availableBalance == IF walletBalance - reserveAmount > 0
                            THEN walletBalance - reserveAmount ELSE 0
    IN  Min3(100 * maxTradeAmount, 90 * availableBalance, 90 * availableBalance)

\* The same for MAX_TRADE_AMOUNT maxTrade (milli-SOL) and a pool liquidity.
tradeAmountOf(maxTrade, liquidity, walletBalance) ==
    LET milli == LamportsPerSol \div 1000
        maxTradeAmount == IF maxTrade = NaN \/ maxTrade = 0
                          THEN DefaultMaxTradeMilliSol * milli
                          ELSE maxTrade * milli
        reserveAmount == ReserveMilliSol * milli
        availableBalance == IF walletBalance - reserveAmount > 0
                            THEN walletBalance - reserveAmount ELSE 0
    IN  Min3(100 * maxTradeAmount, 90 * availableBalance, 5 * liquidity)

tradeAmount100(s, walletBalance) ==
    tradeAmountOf(env.MAX_TRADE_AMOUNT, s.liquidity, walletBalance)

\* calculateTradeParameters: the order it returns, or its refusal.
NoOrder ==
    [status |-> "none", maxTrade |-> NaN, liquidity |-> 0, walletBalance |-> 0,
     amountIn |-> 0]

calculateTradeParameters(maxTrade, liquidity, walletBalance) ==
    LET t == tradeAmountOf(maxTrade, liquidity, walletBalance)
        floor100 == 100 * FloorMilliSol * (LamportsPerSol \div 1000)
    IN  [status |-> IF t < floor100 THEN "refused" ELSE "built",
         maxTrade |-> maxTrade, liquidity |-> liquidity,
         walletBalance |-> walletBalance,
         amountIn |-> IF t < floor100 THEN 0 ELSE t \div 100]

belowFloor(s, walletBalance) ==
    tradeAmount100(s, walletBalance) < 100 * FloorMilliSol * (LamportsPerSol \div 1000)

\* updateCooldown's new dailyTradeCount: today's entry incremented, entries whose
\* date is more than a day before now deleted.
updateCooldownCount ==
    [d \in Days |->
        LET c == IF d = Today THEN dailyTradeCount[d] + 1 ELSE dailyTradeCount[d]
        IN  IF d * DayMs < now - DayMs THEN 0 ELSE c]

\* --------------------------------------------------- pipeline gate (bot)
shouldExecuteTrade(s) ==
    /\ config.AUTO_TRADE_ENABLED
    /\ ~config.TEST_MODE
    /\ s.riskScore >= config.RISK_THRESHOLD
    /\ s.liquidity >= config.MIN_LIQUIDITY
    /\ ~s.isScam
    /\ ~isInCooldown

\* What the synchronous run from shouldExecuteTrade to executeTrade's first real
\* await decides for signal s.
Decide(s) ==
    IF ~shouldExecuteTrade(s) THEN "skip"
    ELSE IF ~env.AUTO_TRADE_ENABLED THEN "disabled"
    ELSE IF isPaused THEN "paused"
    ELSE validateTrade(s)

\* --------------------------------------------------------- pool monitor
PoolTypes == {"AMM_V4", "CLMM"}

\* Transaction signatures the log subscriptions may deliver, with the patterns
\* their logs hold: an AMM initialize2, a CLMM create_pool, both, or neither.
Signatures == {"sigAmm", "sigAmm2", "sigClmm", "sigBoth", "sigSwap"}

hasInitInstruction(sig) == sig \in {"sigAmm", "sigAmm2", "sigBoth"}

hasCreateInstruction(sig) == sig \in {"sigClmm", "sigBoth"}

\* What extractPoolData and isMemecoinPool make of a transaction: no pool data
\* (fetch failed, transaction failed, layout not recognised), a pool against a
\* stablecoin or major token, or a memecoin pool.
ExtractionOutcomes == {"null", "major", "memecoin"}

\* The synchronous part of handleAmmV4Log for signature sig: "ignored" (no
\* initialize2 pattern), "limited" (dropped by the rate limit), "duplicate",
\* or "admitted".
ammIntake(sig) ==
    IF ~hasInitInstruction(sig) THEN "ignored"
    ELSE IF now - lastProcessTime < minProcessInterval THEN "limited"
    ELSE IF sig \in processedTransactions THEN "duplicate"
    ELSE "admitted"

\* The synchronous part of handleClmmLog.
clmmIntake(sig) ==
    IF ~hasCreateInstruction(sig) THEN "ignored"
    ELSE IF sig \in processedTransactions THEN "duplicate"
    ELSE "admitted"

\* stop(): the cache is dropped only when it has outgrown the threshold.
cacheAfterStop ==
    IF Cardinality(processedTransactions) > CacheThreshold
    THEN {} ELSE processedTransactions

\* ---------------------------------------------------------- twitter bot
Payloads == 1..MaxPayloads

NoItem == [content |-> 0, retries |-> 0]

BagAdd(b, e) == b (+) SetToBag({e})

BagRemove(b, e) == b (-) SetToBag({e})

\* canTweet(): the budget is restored once the window has passed; the result
\* is the rate-limit record it leaves, whose remaining > 0 is its verdict.
canTweet(rl) ==
    IF rl.resetTime # 0 /\ now > rl.resetTime
    THEN [remaining |-> DefaultTweetBudget, resetTime |-> 0]
    ELSE rl

\* updateRateLimits()
updateRateLimits(rl) ==
    [remaining |-> rl.remaining - 1,
     resetTime |-> IF rl.resetTime = 0 THEN now + RateWindow ELSE rl.resetTime]

\* queueTweet(content)
queueTweet(q, content) == Append(q, [content |-> content, retries |-> 0])

\* postTweet without its budget check.
postTweetStep_NoBudgetCheck(rl) ==
    IF now - lastTweetTime < tweetInterval THEN "deferred" ELSE "sending"

\* The way postTweet leaves its synchronous part: the tweet is queued (no
\* budget), deferred on a timer (spacing not elapsed) or handed to the API.
postTweetStep(rl) ==
    IF canTweet(rl).remaining <= 0 THEN "queued"
    ELSE IF now - lastTweetTime < tweetInterval THEN "deferred"
    ELSE "sending"

\* The timer postTweet arms for a deferred tweet: waitTime from now.
deferredTimer(content) ==
    [content |-> content, at |-> now + (tweetInterval - (now - lastTweetTime))]

\* -------------------------------------------------------- risk analyzer
Factors == {"liquidity", "tokenSupply", "contractSecurity", "socialSignals",
            "marketTiming", "teamCredibility"}

riskWeights ==
    [liquidity |-> 25, tokenSupply |-> 20, contractSecurity |-> 20,
     socialSignals |-> 15, marketTiming |-> 10, teamCredibility |-> 10]

\* What the catch block of each factor function returns.
catchValue ==
    [liquidity |-> 1, tokenSupply |-> 1, contractSecurity |-> 3,
     socialSignals |-> 3, marketTiming |-> 5, teamCredibility |-> 3]

Thrown == 0 - 2              \* an exception in place of a value

\* Scores each factor function can compute when its lookups succeed: the
\* least, one low and the greatest value its arithmetic reaches.
FactorScores ==
    [liquidity |-> {1, 2, 10}, tokenSupply |-> {1, 2, 10},
     contractSecurity |-> {1, 2, 8}, socialSignals |-> {5, 9},
     marketTiming |-> {5, 8}, teamCredibility |-> {5, 7}]

FactorOutcomes(f) == FactorScores[f] \cup {Thrown}

\* A factor function without its catch block: the exception propagates.
analyzeFactor_NoCatch(f, outcome) == outcome

\* A factor function (analyzeLiquidity ... analyzeTeamCredibility): its body
\* computes outcome, or throws and its own catch block returns catchValue.
analyzeFactor(f, outcome) == IF outcome = Thrown THEN catchValue[f] ELSE outcome

Pending == [status |-> "pending", value |-> 0, threw |-> FALSE]

\* The entry Promise.allSettled holds for factor f; threw remembers that the
\* factor's own computation failed.
settledPromise(f, outcome) ==
    IF analyzeFactor(f, outcome) = Thrown
    THEN [status |-> "rejected", value |-> 0, threw |-> TRUE]
    ELSE [status |-> "fulfilled", value |-> analyzeFactor(f, outcome),
          threw |-> outcome = Thrown]

\* scores: the value of a fulfilled promise, 0 for a rejected one.
scoresOf(st) ==
    [f \in Factors |-> IF st[f].status = "fulfilled" THEN st[f].value ELSE 0]

RECURSIVE SumOver(_, _)
SumOver(S, g) ==
    IF S = {} THEN 0
    ELSE LET f == CHOOSE x \in S : TRUE IN g[f] + SumOver(S \ {f}, g)

\* calculateWeightedScore: every category of riskWeights has a score, so all
\* six enter the sum and the weight; the quotient is kept as the pair.
weightedSum(scores) == SumOver(Factors, [f \in Factors |-> scores[f] * riskWeights[f]])

totalWeight(scores) == SumOver(Factors, riskWeights)

\* Math.floor(num / den) in place of Math.round.
MathRound_Floor(num, den) == num \div den

\* Math.round(num / den) for num >= 0, den > 0.
MathRound(num, den) == (2 * num + den) \div (2 * den)

\* getTokenMetadata: the metadata, or null when the lookup fails.
getTokenMetadata(found) == IF found THEN "metadata" ELSE "null"

\* estimateMarketCap without the catch blocks: a failed supply lookup throws.
estimateMarketCap_NoCatch(supplyFound) == IF supplyFound THEN 1 ELSE Thrown

\* estimateMarketCap: supply times the placeholder price, modelled as 1 when
\* the supply lookup succeeds; getTokenSupply returns 0 when it fails.
estimateMarketCap(supplyFound) == IF supplyFound THEN 1 ELSE 0

NoAnalysis ==
    [status |-> "none", failed |-> FALSE, riskScore |-> 0, isScam |-> FALSE,
     sum |-> 0, weight |-> 0, tokenMetadata |-> "null", marketCap |-> 0,
     liquidity |-> 0, blacklisted |-> FALSE, supplyFound |-> FALSE]

\* What the catch block of analyzePool returns.
failedAnalysis ==
    [NoAnalysis EXCEPT !.status = "returned", !.failed = TRUE, !.isScam = TRUE]

\* analyzePool after Promise.allSettled: the assessment it returns.
analyzePool(st, blacklisted, metadataFound, supplyFound, poolLiquidity) ==
    IF estimateMarketCap(supplyFound) = Thrown
    THEN failedAnalysis
    ELSE [status |-> "returned", failed |-> FALSE,
          riskScore |-> MathRound(weightedSum(scoresOf(st)), totalWeight(scoresOf(st))),
          isScam |-> blacklisted \/ weightedSum(scoresOf(st)) < 3 * totalWeight(scoresOf(st)),
          sum |-> weightedSum(scoresOf(st)), weight |-> totalWeight(scoresOf(st)),
          tokenMetadata |-> getTokenMetadata(metadataFound),
          marketCap |-> estimateMarketCap(supplyFound),
          liquidity |-> OrDefault(poolLiquidity, 0),
          blacklisted |-> blacklisted, supplyFound |-> supplyFound]

\* loadBlacklist(): the set built from BLACKLIST_TOKENS.
loadBlacklist(tokens) == tokens

\* Mints BLACKLIST_TOKENS may name.
BlacklistInputs == { {}, {"mint"}, {"other"} }

\* isTokenBlacklisted(mintAddress): membership of the set, whatever
\* config.BLACKLIST_ENABLED is (the option is read for a start-up warning only).
isTokenBlacklisted(blacklist, enabled, mintAddress) == mintAddress \in blacklist

NoListing ==
    [status |-> "none", BLACKLIST_ENABLED |-> FALSE, blacklist |-> {}, listed |-> FALSE,
     sum |-> 0, lowScore |-> FALSE, isScam |-> FALSE, executes |-> FALSE, gateOpen |-> FALSE]

\* ------------------------------------------------- the factor functions
Clamp(score) == IF score < 1 THEN 1 ELSE IF score > 10 THEN 10 ELSE score

\* analyzeLiquidity: 1 when the pool account is not found, else by the SOL
\* liquidity of poolData (lamports).
analyzeLiquidity(fx) ==
    IF ~fx.poolFound THEN 1
    ELSE IF fx.liquidity >= 100 * LamportsPerSol THEN 10
    ELSE IF fx.liquidity >= 50 * LamportsPerSol THEN 8
    ELSE IF fx.liquidity >= 20 * LamportsPerSol THEN 6
    ELSE IF fx.liquidity >= 10 * LamportsPerSol THEN 4
    ELSE IF fx.liquidity >= 5 * LamportsPerSol THEN 2
    ELSE 1

analyzeTokenSupply(fx) ==
    Clamp(5 + (IF ~fx.mintAuthority THEN 3 ELSE 0 - 2)
            + (IF ~fx.freezeAuthority THEN 2 ELSE 0 - 1)
            + (IF fx.reasonableSupply THEN 1 ELSE 0))

\* metadata is "none", "clean" (symbol and name, no suspicious word) or
\* "suspicious" (symbol and name with such a word); age is the pool's age
\* class, "unknown" when blockTime is missing.
analyzeContractSecurity(fx) ==
    Clamp(5 + (IF fx.metadata # "none" THEN 2 ELSE 0)
            - (IF fx.metadata = "suspicious" THEN 3 ELSE 0)
            + (CASE fx.age = "lt1h" -> 0 - 2
                 [] fx.age = "lt24h" -> 0 - 1
                 [] fx.age = "gt1w" -> 1
                 [] OTHER -> 0))

analyzeSocialSignals(fx) ==
    Clamp(5 + (IF fx.external_url THEN 1 ELSE 0) + (IF fx.website THEN 1 ELSE 0)
            + (IF fx.twitter THEN 2 ELSE 0))

\* The second range of hours in the source (hour >= 9 && hour <= 1) is empty.
analyzeMarketTiming(fx) ==
    Clamp(5 + (IF fx.hour >= 13 /\ fx.hour <= 21 THEN 2
               ELSE IF fx.hour >= 9 /\ fx.hour <= 1 THEN 1 ELSE 0)
            + (IF fx.day >= 1 /\ fx.day <= 5 THEN 1 ELSE 0))

\* The branch of analyzeMarketTiming's hour test that is taken.
timingWindow(hour) ==
    IF hour >= 13 /\ hour <= 21 THEN "high"
    ELSE IF hour >= 9 /\ hour <= 1 THEN "extended"
    ELSE "none"

HoursPerDay == 24
DaysPerWeek == 7

NoTiming == [status |-> "none", hour |-> 0, day |-> 0, score |-> 0, window |-> "none"]

\* balance is the deployer account's lamports, NaN when there is no account.
analyzeTeamCredibility(fx) ==
    Clamp(5 + (IF fx.balance # NaN /\ fx.balance > LamportsPerSol THEN 1 ELSE 0)
            + (IF fx.balance # NaN /\ fx.balance > 10 * LamportsPerSol THEN 1 ELSE 0))

factorScore(f, fx) ==
    CASE f = "liquidity" -> analyzeLiquidity(fx)
      [] f = "tokenSupply" -> analyzeTokenSupply(fx)
      [] f = "contractSecurity" -> analyzeContractSecurity(fx)
      [] f = "socialSignals" -> analyzeSocialSignals(fx)
      [] f = "marketTiming" -> analyzeMarketTiming(fx)
      [] f = "teamCredibility" -> analyzeTeamCredibility(fx)

\* What the lookups can report about a pool.
FactInputs ==
    [ poolFound : BOOLEAN, liquidity : {2 * LamportsPerSol, 200 * LamportsPerSol},
      mintAuthority : BOOLEAN, freezeAuthority : BOOLEAN, reasonableSupply : BOOLEAN,
      metadata : {"none", "clean", "suspicious"},
      age : {"lt1h", "lt24h", "mid", "gt1w", "unknown"},
      external_url : BOOLEAN, website : BOOLEAN, twitter : BOOLEAN,
      hour : {12, 13, 21}, day : {0, 5},
      balance : {NaN, 15 * LamportsPerSol},
      blacklisted : BOOLEAN ]

NoFacts == CHOOSE fx \in FactInputs : TRUE

\* ------------------------------------------------------------- startup
\* The variables of process.env that ConfigManager reads besides those of
\* env: an absent URL is Undefined, "bad" is a string that is no URL of the
\* required scheme; TWITTER_KEYS says that all four credentials are set.
StartupInputs ==
    [ SOLANA_RPC_URL : {"http", "bad", Undefined},
      SOLANA_WS_URL : {"ws", "bad", Undefined},
      TWITTER_KEYS : BOOLEAN,
      MAX_SLIPPAGE : {NaN, 0, 5, 51},
      PRIVATE_KEY : BOOLEAN,
      PROGRAM_ID : BOOLEAN ]

\* x < y in JavaScript: false when either side is NaN.
Less(x, y) == x # NaN /\ y # NaN /\ x < y

\* The errors validateConfig collects for environment e and settings s.
configErrors(e, s) ==
    (IF s.SOLANA_RPC_URL = Undefined THEN {"SOLANA_RPC_URL is required"} ELSE {})
    \cup (IF s.SOLANA_WS_URL = Undefined THEN {"SOLANA_WS_URL is required"} ELSE {})
    \cup (IF s.SOLANA_RPC_URL = "bad" THEN {"SOLANA_RPC_URL must be a valid URL"} ELSE {})
    \cup (IF s.SOLANA_WS_URL = "bad" THEN {"SOLANA_WS_URL must be a valid URL"} ELSE {})
    \cup (IF ~s.TWITTER_KEYS THEN {"TWITTER credentials are required"} ELSE {})
    \cup (IF LET x == ParseOr(e.MAX_TRADE_AMOUNT, DefaultMaxTradeMilliSol)
              IN  (x # NaN /\ x <= 0) \/ Less(100 * 1000, x)
           THEN {"MAX_TRADE_AMOUNT out of range"} ELSE {})
    \cup (IF Less(ParseOr(e.MIN_LIQUIDITY, DefaultMinLiquidity), 0)
           THEN {"MIN_LIQUIDITY cannot be negative"} ELSE {})
    \cup (IF Less(s.MAX_SLIPPAGE, 1) \/ Less(50, s.MAX_SLIPPAGE)
           THEN {"MAX_SLIPPAGE out of range"} ELSE {})
    \cup (IF \/ Less(ParseOr(e.RISK_THRESHOLD, DefaultRiskThreshold), 1)
             \/ Less(10, ParseOr(e.RISK_THRESHOLD, DefaultRiskThreshold))
           THEN {"RISK_THRESHOLD out of range"} ELSE {})
    \cup (IF e.AUTO_TRADE_ENABLED /\ ~s.PRIVATE_KEY THEN {"PRIVATE_KEY is required"} ELSE {})
    \cup (IF e.AUTO_TRADE_ENABLED /\ ~s.PROGRAM_ID THEN {"PROGRAM_ID is required"} ELSE {})

\* validateConfig that only logs its errors.
validateConfig_NoThrow(e, s) == TRUE

\* validateConfig: TRUE when it returns, FALSE when it throws.
validateConfig(e, s) == configErrors(e, s) = {}

\* ------------------------------------------------------- updateConfig
allowedUpdates ==
    {"MAX_TRADE_AMOUNT", "MIN_LIQUIDITY", "MAX_SLIPPAGE", "RISK_THRESHOLD",
     "COOLDOWN_PERIOD", "AUTO_TRADE_ENABLED", "MAX_DAILY_TRADES", "BLACKLIST_ENABLED"}

NumericKeys == {"MIN_LIQUIDITY", "RISK_THRESHOLD", "COOLDOWN_PERIOD", "MAX_DAILY_TRADES"}

\* A JSON value of a request body: its type and its text.
Json(jsType, jsText) == [type |-> jsType, text |-> jsText]

\* parseInt(value) / parseFloat(value) for the texts followed.
parseNumber(value) ==
    IF value.type = "boolean" THEN NaN
    ELSE CASE value.text = "0" -> 0
           [] value.text = "1" -> 1
           [] value.text = "5" -> 5
           [] value.text = "20" -> 20
           [] value.text = "-5" -> 0 - 5
           [] OTHER -> NaN

\* Boolean(value): false, 0 and the empty string are false; every other
\* value is true, the string 'false' included.
JSBoolean(value) ==
    CASE value.type = "boolean" -> value.text = "true"
      [] value.type = "number" -> value.text # "0"
      [] OTHER -> value.text # ""

\* The entries a request body may carry.
UpdateEntries ==
    { [key |-> "RISK_THRESHOLD", value |-> Json("number", "5")],
      [key |-> "RISK_THRESHOLD", value |-> Json("number", "0")],
      [key |-> "RISK_THRESHOLD", value |-> Json("string", "high")],
      [key |-> "MIN_LIQUIDITY", value |-> Json("number", "-5")],
      [key |-> "MIN_LIQUIDITY", value |-> Json("string", "20")],
      [key |-> "MAX_DAILY_TRADES", value |-> Json("number", "1")],
      [key |-> "AUTO_TRADE_ENABLED", value |-> Json("boolean", "false")],
      [key |-> "AUTO_TRADE_ENABLED", value |-> Json("string", "false")],
      [key |-> "TEST_MODE", value |-> Json("boolean", "true")] }

\* Object.entries(updates) of the requests followed: one or two entries.
UpdateInputs ==
    {<<e>> : e \in UpdateEntries}
        \cup {<<e1, e2>> : e1 \in UpdateEntries, e2 \in UpdateEntries}

\* The settings the running bot was started with (they passed validation).
RunningSettings ==
    [SOLANA_RPC_URL |-> "http", SOLANA_WS_URL |-> "ws", TWITTER_KEYS |-> TRUE,
     MAX_SLIPPAGE |-> 5, PRIVATE_KEY |-> TRUE, PROGRAM_ID |-> TRUE]

\* validateConfig on the configuration cfg of the running bot.
revalidate(cfg) ==
    validateConfig([env EXCEPT !.AUTO_TRADE_ENABLED = cfg.AUTO_TRADE_ENABLED,
                               !.RISK_THRESHOLD = cfg.RISK_THRESHOLD,
                               !.MIN_LIQUIDITY = cfg.MIN_LIQUIDITY],
                   RunningSettings)

\* One pass of the for loop of updateConfig over entry e with configuration
\* cfg: the configuration it leaves and whether it threw.
applyEntry(cfg, e) ==
    IF e.key \notin allowedUpdates THEN [config |-> cfg, threw |-> TRUE]
    ELSE IF e.key \in NumericKeys
    THEN IF parseNumber(e.value) = NaN \/ parseNumber(e.value) < 0
         THEN [config |-> cfg, threw |-> TRUE]
         ELSE [config |-> [cfg EXCEPT ![e.key] = parseNumber(e.value)], threw |-> FALSE]
    ELSE [config |-> [cfg EXCEPT ![e.key] = JSBoolean(e.value)], threw |-> FALSE]

\* The for loop of updateConfig over the entries of updates.
RECURSIVE applyEntries(_, _)
applyEntries(cfg, updates) ==
    IF updates = <<>> THEN [config |-> cfg, threw |-> FALSE]
    ELSE LET r == applyEntry(cfg, Head(updates))
         IN  IF r.threw THEN r ELSE applyEntries(r.config, Tail(updates))

\* updateConfig(updates): the for loop, then validateConfig; the result is the
\* configuration the call leaves and whether it threw.
updateConfig(cfg, updates) ==
    LET r == applyEntries(cfg, updates)
    IN  IF r.threw THEN r
        ELSE [config |-> r.config, threw |-> ~revalidate(r.config)]

\* ------------------------------------------------------------ tweet text
Chars == {"a", "."}

Ellipsis == <<".", ".", ".">>

\* The texts handed to postTweet, up to MaxTextLen characters.
RECURSIVE TextsOfLen(_)
TextsOfLen(n) ==
    IF n = 0 THEN {<<>>}
    ELSE {Append(t, c) : t \in TextsOfLen(n - 1), c \in Chars}

Texts == UNION {TextsOfLen(n) : n \in 0..MaxTextLen}

\* content.substring(0, n)
substring(content, n) == SubSeq(content, 1, IF n < Len(content) THEN n ELSE Len(content))

\* The truncation that keeps one character more before the marker.
truncateTweet_CutLate(content) ==
    IF Len(content) > TweetLimit
    THEN substring(content, TweetCut + 1) \o Ellipsis
    ELSE content

\* postTweet and formatSignalTweet: a text over the limit is cut and the
\* marker appended.
truncateTweet(content) ==
    IF Len(content) > TweetLimit
    THEN substring(content, TweetCut) \o Ellipsis
    ELSE content

NoText == [status |-> "none", content |-> <<>>, sent |-> <<>>]

\* ------------------------------------------------------------------ Init
InitClock == now = DefaultCooldownSec * MsPerSec

InitConfig ==
    /\ env \in EnvInputs
    /\ config = loadConfig(env)

InitHandlers ==
    /\ pc = [h \in Handlers |-> "idle"]
    /\ signal = [h \in Handlers |-> NoSignal]
    /\ notifyCalls = [h \in Handlers |-> 0]
    /\ stats = [poolsDetected |-> 0, tradesExecuted |-> 0]

InitEngine ==
    /\ lastTradeTime = 0
    /\ dailyTradeCount = [d \in Days |-> 0]
    /\ cooldownPeriod = OrDefault(env.COOLDOWN_PERIOD, DefaultCooldownSec) * MsPerSec
    /\ isPaused = FALSE
    /\ engineStats = [totalTrades |-> 0, successfulTrades |-> 0, failedTrades |-> 0]

InitMonitor ==
    /\ processedTransactions = {}
    /\ lastProcessTime = 0
    /\ isRunning = FALSE
    /\ subscriptions = {}
    /\ extracting = [k \in PoolTypes \X Signatures |-> 0]
    /\ extractCount = [sig \in Signatures |-> 0]
    /\ emitted = [sig \in Signatures |-> 0]
    /\ arrivals = 0
    /\ lastArrival = [seq |-> 0, sig |-> "none", type |-> "none"]

InitTwitter ==
    /\ isInitialized = FALSE
    /\ tweetQueue = <<>>
    /\ isProcessingQueue = FALSE
    /\ rateLimits = [remaining |-> DefaultTweetBudget, resetTime |-> 0]
    /\ lastTweetTime = 0
    /\ timers = EmptyBag
    /\ inflight = EmptyBag
    /\ drain = [pc |-> "off", at |-> 0, item |-> NoItem]
    /\ sent = EmptyBag
    /\ submitted = 0
    /\ failures = 0
    /\ unhandled = 0

InitAnalyzer ==
    /\ settled = [f \in Factors |-> Pending]
    /\ analysis = NoAnalysis
    /\ facts = NoFacts

InitBoot == boot = [pc |-> "constructed", validation |-> "pending"]

InitOrder == order = NoOrder

InitText == text = NoText

InitShutdown == wakeups = EmptyBag /\ shut = "no"

InitListing == listing = NoListing

InitTiming == timing = NoTiming

NoDecision == [signal |-> NoSignal, gate |-> FALSE, engine |-> "none"]

InitConfigure == configured = [calls |-> 0, keys |-> {}, decision |-> NoDecision]

\* The connection before any subscription: no listener, the Map empty.
NoRegistry ==
    [ids |-> [n \in PoolTypes |-> 0], listeners |-> {}, nextId |-> 1, calls |-> 0]

InitRegistry == registry = NoRegistry

Init ==
    /\ InitClock /\ InitConfig /\ InitHandlers /\ InitEngine
    /\ InitMonitor /\ InitTwitter /\ InitAnalyzer /\ InitBoot
    /\ InitOrder /\ InitText /\ InitShutdown
    /\ InitListing /\ InitTiming /\ InitConfigure /\ InitRegistry

\* --------------------------------------------------------------- actions
Tick ==
    /\ now < MaxTime
    /\ now' = now + 1
    /\ UNCHANGED <<pipelineVars, monitorVars, twitterVars, analyzerVars, bootVars, orderVars, textVars, shutdownVars, listVars, timingVars, configureVars, registryVars>>

\* poolMonitor emits newPool: the handler runs to  await analyzePool(poolData).
NewPool(h, pd) ==
    /\ pc[h] = "idle"
    /\ stats.poolsDetected < MaxOpportunities
    /\ pc' = [pc EXCEPT ![h] = "analyze"]
    /\ signal' = [signal EXCEPT ![h] = [NoSignal EXCEPT
                     !.type = pd.type, !.poolId = pd.poolId, !.coinMint = pd.coinMint,
                     !.tokenMint = pd.tokenMint, !.liquidity = pd.liquidity]]
    /\ UNCHANGED notifyCalls
    /\ stats' = [stats EXCEPT !.poolsDetected = @ + 1]
    /\ UNCHANGED <<now, monitorVars, twitterVars, analyzerVars, bootVars, orderVars, textVars, shutdownVars, listVars, configVars, engineVars, timingVars, configureVars, registryVars>>

\* analyzePool resolves; the signal is built and postTwitterSignal runs up to
\* await twitterBot.postTweet, or catches formatTweet's TypeError.
AnalyzeReturns(h, a) ==
    /\ pc[h] = "analyze"
    /\ LET s == MakeSignal(signal[h], a)
       IN  /\ signal' = [signal EXCEPT ![h] = s]
           /\ IF formatTweetThrows(s)
              THEN /\ pc' = [pc EXCEPT ![h] = "nopost"]
                   /\ UNCHANGED notifyCalls
              ELSE /\ pc' = [pc EXCEPT ![h] = "post"]
                   /\ notifyCalls' = [notifyCalls EXCEPT ![h] = @ + 1]
    /\ UNCHANGED <<now, monitorVars, twitterVars, analyzerVars, bootVars, orderVars, textVars, shutdownVars, listVars, configVars, stats, engineVars, timingVars, configureVars, registryVars>>

\* The handler invocation is over (processed, or its catch has logged the
\* error): its slot is free for the next newPool event.
Finish(h) ==
    /\ pc' = [pc EXCEPT ![h] = "idle"]
    /\ signal' = [signal EXCEPT ![h] = NoSignal]
    /\ notifyCalls' = [notifyCalls EXCEPT ![h] = 0]

\* The handler after postTwitterSignal has settled (postTweet resolved with a
\* tweet or null, or rejected and was caught and logged): the gate, then
\* executeTrade up to its first await on the network (getBalance in
\* calculateTradeParameters).
AfterPost(h) ==
    LET d == Decide(signal[h])
    IN  /\ IF d = "ok"
           THEN /\ pc' = [pc EXCEPT ![h] = "params"]
                /\ UNCHANGED <<signal, notifyCalls>>
           ELSE Finish(h)
        /\ stats' = IF d \in {"disabled", "paused"}
                    THEN [stats EXCEPT !.tradesExecuted = @ + 1]
                    ELSE stats
        /\ engineStats' = IF d \in {"skip", "disabled", "paused", "ok"}
                          THEN engineStats
                          ELSE [engineStats EXCEPT !.failedTrades = @ + 1]
        /\ UNCHANGED <<now, monitorVars, twitterVars, analyzerVars, bootVars, orderVars, textVars, shutdownVars, listVars, configVars,
                       lastTradeTime, dailyTradeCount, cooldownPeriod, isPaused, timingVars, configureVars, registryVars>>

PostReturns(h) ==
    /\ pc[h] = "post"
    /\ AfterPost(h)

\* formatTweet threw: nothing was handed to the notifier.
PostSkipped(h) ==
    /\ pc[h] = "nopost"
    /\ AfterPost(h)

\* handleTradeError, then the handler's catch.
TradeError(h) ==
    /\ Finish(h)
    /\ engineStats' = [engineStats EXCEPT !.failedTrades = @ + 1]
    /\ UNCHANGED <<now, monitorVars, twitterVars, analyzerVars, bootVars, orderVars, textVars, shutdownVars, listVars, configVars, stats,
                   lastTradeTime, dailyTradeCount, cooldownPeriod, isPaused, timingVars, configureVars, registryVars>>

\* getBalance resolves: the trade amount is computed and performTrade starts.
ParamsReturns(h, walletBalance) ==
    /\ pc[h] = "params"
    /\ IF belowFloor(signal[h], walletBalance)
       THEN TradeError(h)
       ELSE /\ pc' = [pc EXCEPT ![h] = "perform"]
            /\ UNCHANGED <<now, monitorVars, twitterVars, analyzerVars, bootVars, orderVars, textVars, shutdownVars, listVars, configVars, signal, notifyCalls, stats, engineVars, timingVars, configureVars, registryVars>>

ParamsFails(h) ==
    /\ pc[h] = "params"
    /\ TradeError(h)

\* The transaction is confirmed: updateCooldown, updateTradeStats, and the
\* handler counts the trade.
PerformSucceeds(h) ==
    /\ pc[h] = "perform"
    /\ lastTradeTime' = now
    /\ dailyTradeCount' = updateCooldownCount
    /\ engineStats' = [engineStats EXCEPT !.totalTrades = @ + 1,
                                          !.successfulTrades = @ + 1]
    /\ stats' = [stats EXCEPT !.tradesExecuted = @ + 1]
    /\ Finish(h)
    /\ UNCHANGED <<now, monitorVars, twitterVars, analyzerVars, bootVars, orderVars, textVars, shutdownVars, listVars, configVars, cooldownPeriod, isPaused, timingVars, configureVars, registryVars>>

\* The executor rejects, the send throws or the confirmation reports an error.
PerformFails(h) ==
    /\ pc[h] = "perform"
    /\ TradeError(h)

emergencyStop ==
    /\ ~isPaused
    /\ isPaused' = TRUE
    /\ UNCHANGED <<now, monitorVars, twitterVars, analyzerVars, bootVars, orderVars, textVars, shutdownVars, listVars, configVars, handlerVars,
                   lastTradeTime, dailyTradeCount, cooldownPeriod, engineStats, timingVars, configureVars, registryVars>>

resumeTrading ==
    /\ isPaused
    /\ isPaused' = FALSE
    /\ UNCHANGED <<now, monitorVars, twitterVars, analyzerVars, bootVars, orderVars, textVars, shutdownVars, listVars, configVars, handlerVars,
                   lastTradeTime, dailyTradeCount, cooldownPeriod, engineStats, timingVars, configureVars, registryVars>>

Next ==
    \/ Tick
    \/ \E h \in Handlers, pd \in PoolDataInputs : NewPool(h, pd)
    \/ \E h \in Handlers, a \in AnalysisInputs : AnalyzeReturns(h, a)
    \/ \E h \in Handlers : PostReturns(h)
    \/ \E h \in Handlers : PostSkipped(h)
    \/ \E h \in Handlers, b \in BalanceInputs : ParamsReturns(h, b)
    \/ \E h \in Handlers : ParamsFails(h)
    \/ \E h \in Handlers : PerformSucceeds(h)
    \/ \E h \in Handlers : PerformFails(h)
    \/ emergencyStop
    \/ resumeTrading

Spec == Init /\ [][Next]_vars

\* ------------------------------------------------- pool monitor actions
\* start(): both program-log subscriptions are registered.
MonitorStart ==
    /\ ~isRunning
    /\ subscriptions' = subscriptions \cup PoolTypes
    /\ isRunning' = TRUE
    /\ UNCHANGED <<now, pipelineVars, twitterVars, analyzerVars, bootVars, orderVars, textVars, shutdownVars, listVars, processedTransactions, lastProcessTime,
                   extracting, extractCount, emitted, arrivals, lastArrival, timingVars, configureVars, registryVars>>

\* stop(): every listener is removed, then the cache is cleaned up.
MonitorStop ==
    /\ subscriptions' = {}
    /\ isRunning' = FALSE
    /\ processedTransactions' = cacheAfterStop
    /\ lastArrival' = IF cacheAfterStop = processedTransactions THEN lastArrival
                      ELSE [seq |-> arrivals, sig |-> "none", type |-> "none"]
    /\ UNCHANGED <<now, pipelineVars, twitterVars, analyzerVars, bootVars, orderVars, textVars, shutdownVars, listVars, lastProcessTime,
                   extracting, extractCount, emitted, arrivals, timingVars, configureVars, registryVars>>

\* The intake of one log callback after its pattern check, for the outcome
\* the handler's synchronous part has reached.
Intake(type, sig, outcome) ==
    /\ arrivals' = arrivals + 1
    /\ lastArrival' = IF outcome = "ignored" THEN lastArrival
                      ELSE [seq |-> arrivals + 1, sig |-> sig, type |-> type]
    /\ IF outcome = "admitted"
       THEN /\ processedTransactions' = processedTransactions \cup {sig}
            /\ extracting' = [extracting EXCEPT ![<<type, sig>>] = @ + 1]
            /\ extractCount' = [extractCount EXCEPT ![sig] = @ + 1]
       ELSE UNCHANGED <<processedTransactions, extracting, extractCount>>
    /\ UNCHANGED <<now, pipelineVars, twitterVars, analyzerVars, bootVars, orderVars, textVars, shutdownVars, listVars, isRunning, subscriptions, emitted, timingVars, configureVars, registryVars>>

\* handleAmmV4Log up to  await extractPoolData.
AmmLog(sig) ==
    /\ "AMM_V4" \in subscriptions
    /\ arrivals < MaxArrivals
    /\ lastProcessTime' = IF ammIntake(sig) \in {"duplicate", "admitted"}
                          THEN now ELSE lastProcessTime
    /\ Intake("AMM_V4", sig, ammIntake(sig))

\* handleClmmLog up to  await extractPoolData.
ClmmLog(sig) ==
    /\ "CLMM" \in subscriptions
    /\ arrivals < MaxArrivals
    /\ UNCHANGED lastProcessTime
    /\ Intake("CLMM", sig, clmmIntake(sig))

\* extractPoolData resolves; a memecoin pool is emitted as newPool.  A CLMM
\* record carries no mints, so isMemecoinPool never rejects it.
ExtractReturns(type, sig, outcome) ==
    /\ extracting[<<type, sig>>] > 0
    /\ extracting' = [extracting EXCEPT ![<<type, sig>>] = @ - 1]
    /\ emitted' = IF outcome = "memecoin" \/ (outcome = "major" /\ type = "CLMM")
                  THEN [emitted EXCEPT ![sig] = @ + 1] ELSE emitted
    /\ UNCHANGED <<now, pipelineVars, twitterVars, analyzerVars, bootVars, orderVars, textVars, shutdownVars, listVars, processedTransactions, lastProcessTime,
                   isRunning, subscriptions, extractCount, arrivals, lastArrival, timingVars, configureVars, registryVars>>

NextMonitor ==
    \/ Tick
    \/ MonitorStart
    \/ MonitorStop
    \/ \E sig \in Signatures : AmmLog(sig)
    \/ \E sig \in Signatures : ClmmLog(sig)
    \/ \E type \in PoolTypes, sig \in Signatures, outcome \in ExtractionOutcomes :
          ExtractReturns(type, sig, outcome)

SpecMonitor == Init /\ [][NextMonitor]_vars

\* ------------------------------------------------- risk analyzer actions
\* analyzePool is called: the six factor computations are started.
AnalyzeStart(poolDataPresent) ==
    /\ analysis.status # "running"
    /\ settled' = [f \in Factors |-> Pending]
    /\ analysis' = IF poolDataPresent
                   THEN [NoAnalysis EXCEPT !.status = "running"]
                   ELSE failedAnalysis
    /\ UNCHANGED <<now, pipelineVars, monitorVars, twitterVars, bootVars, orderVars, textVars, shutdownVars, listVars,
                   facts, timingVars, configureVars, registryVars>>

\* The promise of factor f settles.
FactorSettles(f, outcome) ==
    /\ analysis.status = "running"
    /\ settled[f].status = "pending"
    /\ settled' = [settled EXCEPT ![f] = settledPromise(f, outcome)]
    /\ UNCHANGED <<now, pipelineVars, monitorVars, twitterVars, bootVars, orderVars, textVars, shutdownVars, listVars, analysis,
                   facts, timingVars, configureVars, registryVars>>

\* All six promises have settled: the rest of analyzePool runs and returns.
AnalysisCompletes(blacklisted, metadataFound, supplyFound, poolLiquidity) ==
    /\ analysis.status = "running"
    /\ \A f \in Factors : settled[f].status # "pending"
    /\ analysis' = analyzePool(settled, blacklisted, metadataFound, supplyFound,
                               poolLiquidity)
    /\ UNCHANGED <<now, pipelineVars, monitorVars, twitterVars, bootVars, orderVars, textVars, shutdownVars, listVars, settled,
                   facts, timingVars, configureVars, registryVars>>

NextAnalyzer ==
    \/ \E poolDataPresent \in BOOLEAN : AnalyzeStart(poolDataPresent)
    \/ \E f \in Factors : \E outcome \in FactorOutcomes(f) : FactorSettles(f, outcome)
    \/ \E blacklisted, metadataFound, supplyFound \in BOOLEAN,
          poolLiquidity \in {NaN, 20 * LamportsPerSol} :
          AnalysisCompletes(blacklisted, metadataFound, supplyFound, poolLiquidity)

SpecAnalyzer == Init /\ [][NextAnalyzer]_vars

\* --------------------------------------------------- twitter bot actions
\* postTweet(content) from its entry to its first await or return, called by
\* caller with the queue q, the timers tm and the in-flight calls infl as the
\* caller leaves them.
postTweet(content, caller, q, tm, infl) ==
    /\ rateLimits' = canTweet(rateLimits)
    /\ tweetQueue' = IF postTweetStep(rateLimits) = "queued"
                     THEN queueTweet(q, content) ELSE q
    /\ timers' = IF postTweetStep(rateLimits) = "deferred"
                 THEN BagAdd(tm, deferredTimer(content)) ELSE tm
    /\ inflight' = IF postTweetStep(rateLimits) = "sending"
                   THEN BagAdd(infl, [content |-> content, caller |-> caller,
                                      at |-> now])
                   ELSE infl

\* The while loop of processQueuePeriodically from its condition to its next
\* await, with queue q and in-flight calls infl.  When the loop ends the next
\* run is scheduled.
drainLoop(q, infl) ==
    IF Len(q) > 0 /\ canTweet(rateLimits).remaining > 0
    THEN /\ postTweet(Head(q).content, "drain", Tail(q), timers, infl)
         /\ isProcessingQueue' = TRUE
         /\ drain' = IF postTweetStep(rateLimits) = "sending"
                     THEN [pc |-> "posting", at |-> 0, item |-> Head(q)]
                     ELSE [pc |-> "sleeping", at |-> now + tweetInterval,
                           item |-> NoItem]
    ELSE /\ rateLimits' = IF Len(q) > 0 THEN canTweet(rateLimits) ELSE rateLimits
         /\ tweetQueue' = q
         /\ inflight' = infl
         /\ isProcessingQueue' = FALSE
         /\ drain' = [pc |-> "scheduled", at |-> now + DrainPeriod, item |-> NoItem]
         /\ UNCHANGED timers

\* The while loop once shutdown has cleared isInitialized: postTweet throws
\* 'Twitter Bot not initialized' before its try block, the catch of the loop
\* counts a retry and puts the item back, and the loop runs on without a
\* send until every item has reached MaxRetries and is discarded, or stops at
\* once when canTweet() is false.  Then the next run is scheduled.
drainRejected(q, infl) ==
    /\ rateLimits' = IF Len(q) > 0 THEN canTweet(rateLimits) ELSE rateLimits
    /\ tweetQueue' = IF canTweet(rateLimits).remaining > 0 THEN <<>> ELSE q
    /\ inflight' = infl
    /\ isProcessingQueue' = FALSE
    /\ drain' = [pc |-> "scheduled", at |-> now + DrainPeriod, item |-> NoItem]
    /\ UNCHANGED timers

\* The while loop of processQueuePeriodically, whatever isInitialized is.
drainPass(q, infl) ==
    IF isInitialized THEN drainLoop(q, infl) ELSE drainRejected(q, infl)

\* processQueuePeriodically() called while the timer of an earlier pass may
\* be armed (by shutdown, or by a timer other than the latest one), wk being
\* the other timers as the caller leaves them: it returns at once when a
\* pass is in progress, and runs the loop otherwise.
processQueuePeriodically(wk) ==
    IF isProcessingQueue
    THEN /\ wakeups' = wk
         /\ UNCHANGED <<tweetQueue, isProcessingQueue, rateLimits, timers, inflight, drain>>
    ELSE /\ wakeups' = IF drain.pc = "scheduled" THEN BagAdd(wk, drain.at) ELSE wk
         /\ drainPass(tweetQueue, inflight)

\* initialize(): authentication succeeded; the queue processor is started
\* (its call returns at once when a pass is still in progress).
TwitterInitialize ==
    /\ ~isInitialized
    /\ isInitialized' = TRUE
    /\ IF isProcessingQueue
       THEN UNCHANGED <<tweetQueue, isProcessingQueue, rateLimits, timers, inflight,
                        drain, wakeups>>
       ELSE /\ wakeups' = IF drain.pc = "scheduled"
                          THEN BagAdd(wakeups, drain.at) ELSE wakeups
            /\ drainLoop(tweetQueue, inflight)
    /\ UNCHANGED <<now, pipelineVars, monitorVars, analyzerVars, bootVars, orderVars, textVars, listVars, lastTweetTime, sent, submitted, failures, unhandled, shut, timingVars, configureVars, registryVars>>

\* The bot calls postTweet with a new payload (a signal, a startup or an
\* emergency notice).
PostTweet ==
    /\ isInitialized
    /\ submitted < MaxPayloads
    /\ submitted' = submitted + 1
    /\ postTweet(submitted + 1, "bot", tweetQueue, timers, inflight)
    /\ UNCHANGED <<now, pipelineVars, monitorVars, analyzerVars, bootVars, orderVars, textVars, shutdownVars, listVars, isInitialized,
                   isProcessingQueue, lastTweetTime, drain, sent, failures,
                   unhandled, timingVars, configureVars, registryVars>>

\* The timer of a deferred tweet fires and calls postTweet again.
TimerFires(t) ==
    /\ isInitialized
    /\ BagIn(t, timers)
    /\ now >= t.at
    /\ postTweet(t.content, "timer", tweetQueue, BagRemove(timers, t), inflight)
    /\ UNCHANGED <<now, pipelineVars, monitorVars, analyzerVars, bootVars, orderVars, textVars, shutdownVars, listVars, isInitialized,
                   isProcessingQueue, lastTweetTime, drain, sent, submitted, failures, unhandled, timingVars, configureVars, registryVars>>

\* client.v2.tweet resolves for the call c: postTweet records the send with
\* the time it read before the call.  The queue processor then waits one
\* interval before its next item.
SendSucceeds(c) ==
    /\ BagIn(c, inflight)
    /\ inflight' = BagRemove(inflight, c)
    /\ lastTweetTime' = c.at
    /\ rateLimits' = updateRateLimits(rateLimits)
    /\ sent' = BagAdd(sent, [content |-> c.content, at |-> c.at])
    /\ drain' = IF c.caller = "drain"
                THEN [pc |-> "sleeping", at |-> now + tweetInterval, item |-> NoItem]
                ELSE drain
    /\ UNCHANGED <<now, pipelineVars, monitorVars, analyzerVars, bootVars, orderVars, textVars, shutdownVars, listVars, isInitialized, tweetQueue,
                   isProcessingQueue, timers, submitted, failures, unhandled, timingVars, configureVars, registryVars>>

\* The queue as the catch block of postTweet leaves it: a tweet refused with
\* code 429 is queued, any other failure only logged; the error is rethrown.
queueAfterError(content, code) ==
    IF code = "429" THEN queueTweet(tweetQueue, content) ELSE tweetQueue

\* The queue as the catch block of processQueuePeriodically leaves it.
requeue(q, item) ==
    IF item.retries + 1 < MaxRetries
    THEN <<[content |-> item.content, retries |-> item.retries + 1]>> \o q
    ELSE q

\* client.v2.tweet rejects for the call c.  The bot's callers catch and log
\* the rethrown error, the timer callback has no handler for it, and the
\* queue processor counts a retry and goes on with its loop.
\* Whether the runtime ends the process on an unhandled rejection depends on
\* its mode; the run that goes on is followed, and the rejection is counted.
SendFails(c, code) ==
    /\ BagIn(c, inflight)
    /\ failures < MaxFailures
    /\ failures' = failures + 1
    /\ unhandled' = IF c.caller = "timer" THEN unhandled + 1 ELSE unhandled
    /\ IF c.caller = "drain"
       THEN drainPass(requeue(queueAfterError(c.content, code), drain.item),
                      BagRemove(inflight, c))
       ELSE /\ inflight' = BagRemove(inflight, c)
            /\ tweetQueue' = queueAfterError(c.content, code)
            /\ UNCHANGED <<rateLimits, timers, isProcessingQueue, drain>>
    /\ UNCHANGED <<now, pipelineVars, monitorVars, analyzerVars, bootVars, orderVars, textVars, shutdownVars, listVars, isInitialized,
                   lastTweetTime, sent, submitted, timingVars, configureVars, registryVars>>

\* The timer armed at the end of processQueuePeriodically fires.
DrainWakes ==
    /\ drain.pc = "scheduled"
    /\ now >= drain.at
    /\ ~isProcessingQueue
    /\ drainPass(tweetQueue, inflight)
    /\ UNCHANGED <<now, pipelineVars, monitorVars, analyzerVars, bootVars, orderVars, textVars, shutdownVars, listVars, isInitialized,
                   lastTweetTime, sent, submitted, failures, unhandled, timingVars, configureVars, registryVars>>

\* The wait after a queued tweet's postTweet is over; the loop goes on.
DrainSleepEnds ==
    /\ drain.pc = "sleeping"
    /\ now >= drain.at
    /\ drainPass(tweetQueue, inflight)
    /\ UNCHANGED <<now, pipelineVars, monitorVars, analyzerVars, bootVars, orderVars, textVars, shutdownVars, listVars, isInitialized,
                   lastTweetTime, sent, submitted, failures, unhandled, timingVars, configureVars, registryVars>>

ErrorCodes == {"429", "other"}

\* The clock as far as the twitter bot is followed.
TwitterTick == now < TwitterHorizon /\ Tick

NextTwitter ==
    \/ TwitterTick
    \/ TwitterInitialize
    \/ PostTweet
    \/ \E t \in BagToSet(timers) : TimerFires(t)
    \/ \E c \in BagToSet(inflight) : SendSucceeds(c)
    \/ \E c \in BagToSet(inflight), code \in ErrorCodes : SendFails(c, code)
    \/ DrainWakes
    \/ DrainSleepEnds

SpecTwitter == Init /\ [][NextTwitter]_vars

\* The event loop runs every due timer and every awaited call completes; a
\* send that is attempted again and again is accepted in the end.
FairTwitter ==
    /\ WF_vars(TwitterTick)
    /\ WF_vars(\E t \in BagToSet(timers) : TimerFires(t))
    /\ WF_vars(DrainWakes)
    /\ WF_vars(DrainSleepEnds)
    /\ WF_vars(\E c \in BagToSet(inflight) : SendSucceeds(c) \/ \E code \in ErrorCodes : SendFails(c, code))
    /\ SF_vars(\E c \in BagToSet(inflight) : SendSucceeds(c))

SpecTwitterFair == SpecTwitter /\ FairTwitter

\* ------------------------------------------- twitter bot shutdown actions
\* TwitterBot.shutdown() up to its await: with tweets queued it calls
\* processQueuePeriodically and waits for the promise of that call.
Shutdown ==
    /\ isInitialized
    /\ shut = "no"
    /\ IF Len(tweetQueue) > 0
       THEN /\ processQueuePeriodically(wakeups)
            /\ shut' = IF isProcessingQueue THEN "returned" ELSE "draining"
            /\ UNCHANGED isInitialized
       ELSE /\ isInitialized' = FALSE
            /\ shut' = "done"
            /\ UNCHANGED <<tweetQueue, isProcessingQueue, rateLimits, timers,
                           inflight, drain, wakeups>>
    /\ UNCHANGED <<now, pipelineVars, monitorVars, analyzerVars, bootVars, orderVars,
                   textVars, listVars, lastTweetTime, sent, submitted, failures, unhandled, timingVars, configureVars, registryVars>>

\* The call shutdown waits for has returned: at once, or at the end of the
\* pass it ran.
ShutdownDue ==
    \/ shut = "returned"
    \/ shut = "draining" /\ drain.pc = "scheduled"

\* shutdown() after its await: the bot is marked uninitialized.
ShutdownReturns ==
    /\ ShutdownDue
    /\ isInitialized' = FALSE
    /\ shut' = "done"
    /\ UNCHANGED <<now, pipelineVars, monitorVars, analyzerVars, bootVars, orderVars,
                   textVars, listVars, tweetQueue, isProcessingQueue, rateLimits,
                   lastTweetTime, timers, inflight, drain, sent, submitted,
                   failures, unhandled, wakeups, timingVars, configureVars, registryVars>>

\* A timer of processQueuePeriodically other than the latest one fires.
ExtraWake(t) ==
    /\ BagIn(t, wakeups)
    /\ now >= t
    /\ processQueuePeriodically(BagRemove(wakeups, t))
    /\ UNCHANGED <<now, pipelineVars, monitorVars, analyzerVars, bootVars, orderVars,
                   textVars, listVars, isInitialized, lastTweetTime, sent, submitted,
                   failures, unhandled, shut, timingVars, configureVars, registryVars>>

\* The timer of a deferred tweet fires after shutdown: postTweet throws
\* 'Twitter Bot not initialized' and the timer callback has no handler.
TimerRejected(t) ==
    /\ ~isInitialized
    /\ shut = "done"
    /\ BagIn(t, timers)
    /\ now >= t.at
    /\ timers' = BagRemove(timers, t)
    /\ unhandled' = unhandled + 1
    /\ UNCHANGED <<now, pipelineVars, monitorVars, analyzerVars, bootVars, orderVars,
                   textVars, isInitialized, tweetQueue, isProcessingQueue,
                   rateLimits, lastTweetTime, inflight, drain, sent, submitted,
                   failures, shutdownVars, listVars, timingVars, configureVars, registryVars>>

\* The continuation of shutdown runs before any timer or network callback.
NextShutdown ==
    \/ ShutdownReturns
    \/ ~ShutdownDue /\ Shutdown
    \/ ~ShutdownDue /\ \E t \in BagToSet(wakeups) : ExtraWake(t)
    \/ ~ShutdownDue /\ \E t \in BagToSet(timers) : TimerRejected(t)
    \/ ~ShutdownDue /\ NextTwitter

\* The notifier reads none of the gate variables of the environment: the
\* default environment is followed.
InitDefaultEnv == Init /\ env = EnvRecord(TRUE, FALSE, DefaultMinLiquidity)

SpecShutdown == InitDefaultEnv /\ [][NextShutdown]_vars

\* ------------------------------------------------------ startup actions
\* The process has ended: process.exit in the catch block of start().
Exited == [pc |-> "exited", validation |-> boot.validation]

\* start() -> initialize() -> validateConfig(): it returns, or it throws and
\* start() logs the error and exits.  validation records whether errors
\* were found.
BootValidate(s) ==
    /\ boot.pc = "constructed"
    /\ boot' = [pc |-> IF validateConfig(env, s) THEN "components" ELSE "exited",
                validation |-> IF configErrors(env, s) = {} THEN "passed"
                               ELSE "failed"]
    /\ UNCHANGED <<now, pipelineVars, monitorVars, twitterVars, analyzerVars, orderVars, textVars, shutdownVars, listVars, timingVars, configureVars, registryVars>>

\* initialize() after validation: the four components are initialized and
\* the event handlers are set up; if a component throws, start() exits.  The
\* components' own state is followed in their specifications.
BootComponents(ok) ==
    /\ boot.pc = "components"
    /\ boot' = IF ok THEN [boot EXCEPT !.pc = "monitor"] ELSE Exited
    /\ UNCHANGED <<now, pipelineVars, monitorVars, twitterVars, analyzerVars, orderVars, textVars, shutdownVars, listVars, timingVars, configureVars, registryVars>>

\* start(): poolMonitor.start() subscribes to both programs; the server
\* listens and the startup notification is handed to postTweet.
BootMonitorStart ==
    /\ boot.pc = "monitor"
    /\ ~isRunning
    /\ subscriptions' = subscriptions \cup PoolTypes
    /\ isRunning' = TRUE
    /\ boot' = [boot EXCEPT !.pc = "notifying"]
    /\ UNCHANGED <<now, pipelineVars, twitterVars, analyzerVars, orderVars, textVars, shutdownVars, listVars,
                   processedTransactions, lastProcessTime, extracting, extractCount,
                   emitted, arrivals, lastArrival, timingVars, configureVars, registryVars>>

\* The startup postTweet settles: start() returns, or its catch block exits.
BootNotified(ok) ==
    /\ boot.pc = "notifying"
    /\ boot' = IF ok THEN [boot EXCEPT !.pc = "running"] ELSE Exited
    /\ UNCHANGED <<now, pipelineVars, monitorVars, twitterVars, analyzerVars, orderVars, textVars, shutdownVars, listVars, timingVars, configureVars, registryVars>>

\* The process is alive with its subscriptions and handlers in place.
Live == boot.pc \in {"notifying", "running"} /\ subscriptions # {}

NextStartup ==
    \/ \E s \in StartupInputs : BootValidate(s)
    \/ \E ok \in BOOLEAN : BootComponents(ok)
    \/ BootMonitorStart
    \/ \E ok \in BOOLEAN : BootNotified(ok)
    \/ Live /\ Next

SpecStartup == Init /\ [][NextStartup]_vars

\* ------------------------------------------------ trade order (function)
\* MAX_TRADE_AMOUNT settings that pass validateConfig, in milli-SOL.
MaxTradeInputs == {NaN, 50, 1000, 100 * 1000}

\* Wallet balances and pool liquidities, in lamports.
WalletInputs == {0, 5, 11, 60, 600, 5 * LamportsPerSol}

LiquidityInputs == {0, 19, 20, 30, 999, 10 * LamportsPerSol, 20 * LamportsPerSol}

\* calculateTradeParameters is called and returns or throws.
CalculateOrder(maxTrade, liquidity, walletBalance) ==
    /\ order' = calculateTradeParameters(maxTrade, liquidity, walletBalance)
    /\ UNCHANGED <<now, pipelineVars, monitorVars, twitterVars, analyzerVars, bootVars,
                   textVars, shutdownVars, listVars, timingVars, configureVars, registryVars>>

NextOrder ==
    \E maxTrade \in MaxTradeInputs, liquidity \in LiquidityInputs,
       walletBalance \in WalletInputs :
       CalculateOrder(maxTrade, liquidity, walletBalance)

SpecOrder == Init /\ [][NextOrder]_vars

\* ---------------------------------------------------- tweet text actions
\* postTweet reaches its send with content: the length check, then
\* client.v2.tweet with the text.  One call is followed: the text sent does
\* not depend on earlier calls.
SendText(content) ==
    /\ text.status = "none"
    /\ text' = [status |-> "sent", content |-> content, sent |-> truncateTweet(content)]
    /\ UNCHANGED <<now, pipelineVars, monitorVars, twitterVars, analyzerVars, bootVars,
                   orderVars, shutdownVars, listVars, timingVars, configureVars, registryVars>>

\* formatSignalTweet builds content and its result is handed to postTweet.
FormatAndSendText(content) ==
    /\ text.status = "none"
    /\ text' = [status |-> "formatted", content |-> content,
                sent |-> truncateTweet(truncateTweet(content))]
    /\ UNCHANGED <<now, pipelineVars, monitorVars, twitterVars, analyzerVars, bootVars,
                   orderVars, shutdownVars, listVars, timingVars, configureVars, registryVars>>

NextText ==
    \/ \E content \in Texts : SendText(content)
    \/ \E content \in Texts : FormatAndSendText(content)

SpecText == Init /\ [][NextText]_vars

\* ------------------------------------------------ scoring of known pools
\* analyzePool runs for a pool whose lookups all succeed and report fx: the
\* six factor functions compute their scores and the assessment is returned.
\* One call is followed: the assessment does not depend on earlier calls.
ScorePool(fx) ==
    /\ analysis.status = "none"
    /\ facts' = fx
    /\ settled' = [f \in Factors |-> settledPromise(f, factorScore(f, fx))]
    /\ analysis' = analyzePool([f \in Factors |-> settledPromise(f, factorScore(f, fx))],
                               fx.blacklisted, fx.metadata # "none", TRUE, fx.liquidity)
    /\ UNCHANGED <<now, pipelineVars, monitorVars, twitterVars, bootVars, orderVars,
                   textVars, shutdownVars, listVars, timingVars, configureVars, registryVars>>

NextScoring == analysis.status = "none" /\ \E fx \in FactInputs : ScorePool(fx)

SpecScoring == Init /\ [][NextScoring]_vars

\* --------------------------------------------------- blacklist checking
\* The pool scored while the blacklist is checked: known mint, 20 SOL.
ListedPool ==
    [type |-> "AMM_V4", poolId |-> "pool", coinMint |-> "mint",
     tokenMint |-> "mint", liquidity |-> 20 * LamportsPerSol]

\* The facts the pool is scored with while the blacklist is checked.
ListingFacts ==
    { fx \in FactInputs :
        /\ fx.hour = 13 /\ fx.day = 5 /\ ~fx.blacklisted
        /\ fx.external_url /\ fx.website /\ fx.twitter /\ fx.age = "mid" }

\* A newPool event for ListedPool with the blacklist loaded from tokens and
\* BLACKLIST_ENABLED as given: analyzePool, then the gate and validateTrade.
CheckListed(enabled, tokens, fx) ==
    LET st == [f \in Factors |-> settledPromise(f, factorScore(f, fx))]
        listed == isTokenBlacklisted(loadBlacklist(tokens), enabled, ListedPool.coinMint)
        a == analyzePool(st, listed, TRUE, TRUE, ListedPool.liquidity)
        clean == analyzePool(st, FALSE, TRUE, TRUE, ListedPool.liquidity)
    IN  /\ listing' = [status |-> "checked", BLACKLIST_ENABLED |-> enabled,
                       blacklist |-> loadBlacklist(tokens),
                       listed |-> ListedPool.coinMint \in tokens,
                       sum |-> a.sum, lowScore |-> a.sum < 3 * a.weight,
                       isScam |-> a.isScam,
                       executes |-> Decide(MakeSignal(ListedPool, a)) = "ok",
                       gateOpen |-> Decide(MakeSignal(ListedPool, clean)) = "ok"]
        /\ UNCHANGED <<now, pipelineVars, monitorVars, twitterVars, analyzerVars,
                       bootVars, orderVars, textVars, shutdownVars, timingVars, configureVars, registryVars>>

NextListing ==
    listing.status = "none"
        /\ \E enabled \in BOOLEAN, tokens \in BlacklistInputs, fx \in ListingFacts :
               CheckListed(enabled, tokens, fx)

SpecListing == Init /\ [][NextListing]_vars

\* ------------------------------------------------- market timing actions
\* An hour of the wall clock (getUTCHours, getDay) passes.
ClockHour ==
    /\ timing' = [NoTiming EXCEPT
                     !.hour = (timing.hour + 1) % HoursPerDay,
                     !.day = IF timing.hour + 1 = HoursPerDay
                             THEN (timing.day + 1) % DaysPerWeek ELSE timing.day]
    /\ UNCHANGED <<now, pipelineVars, monitorVars, twitterVars, analyzerVars,
                   bootVars, orderVars, textVars, shutdownVars, listVars, configureVars, registryVars>>

\* analyzeMarketTiming runs at the current hour and day.
ScoreTiming ==
    /\ timing.status = "none"
    /\ timing' = [timing EXCEPT
                     !.status = "scored",
                     !.score = analyzeMarketTiming([NoFacts EXCEPT !.hour = timing.hour,
                                                                   !.day = timing.day]),
                     !.window = timingWindow(timing.hour)]
    /\ UNCHANGED <<now, pipelineVars, monitorVars, twitterVars, analyzerVars,
                   bootVars, orderVars, textVars, shutdownVars, listVars, configureVars, registryVars>>

NextTiming == ClockHour \/ ScoreTiming

SpecTiming == Init /\ [][NextTiming]_vars

\* The clock goes on and an analysis that has been started returns.
SpecTimingFair == SpecTiming /\ WF_vars(ClockHour) /\ WF_vars(ScoreTiming)

\* --------------------------------------------- configuration at runtime
\* POST /configure: updateConfig(req.body); a thrown error is answered 400.
UpdateConfig(updates) ==
    /\ configured.calls < MaxUpdateCalls
    /\ config' = updateConfig(config, updates).config
    /\ configured' =
           [calls |-> configured.calls + 1,
            decision |-> NoDecision,
            keys |-> IF updateConfig(config, updates).threw THEN configured.keys
                     ELSE configured.keys
                            \cup {updates[i].key : i \in 1..Len(updates)}]
    /\ UNCHANGED <<now, env, handlerVars, engineVars, monitorVars, twitterVars,
                   analyzerVars, bootVars, orderVars, textVars, shutdownVars,
                   listVars, timingVars, registryVars>>

\* A scored opportunity reaches the gate: shouldExecuteTrade, and what
\* executeTrade's checks and validateTrade would answer for it.
ConfigDecision(a) ==
    /\ configured' =
           [configured EXCEPT
              !.decision = [signal |-> MakeSignal(ListedPool, a),
                            gate |-> shouldExecuteTrade(MakeSignal(ListedPool, a)),
                            engine |-> IF ~env.AUTO_TRADE_ENABLED THEN "disabled"
                                       ELSE validateTrade(MakeSignal(ListedPool, a))]]
    /\ UNCHANGED <<now, pipelineVars, monitorVars, twitterVars, analyzerVars,
                   bootVars, orderVars, textVars, shutdownVars, listVars, timingVars, registryVars>>

NextConfigure ==
    \/ \E updates \in UpdateInputs : UpdateConfig(updates)
    \/ \E a \in AnalysisInputs : ConfigDecision(a)

SpecConfigure == Init /\ [][NextConfigure]_vars

\* ------------------------------------------- pool monitor subscriptions
\* What connection.onLogs and connection.removeOnLogsListener may do.
CallOutcomes == {"ok", "throws"}

\* subscribeToProgram(programId, name, handler) on the registry r: onLogs
\* registers the listener and returns its id, and the Map stores the id
\* under name, in place of the id it held.
subscribeToProgram(r, name) ==
    [r EXCEPT !.ids[name] = r.nextId,
              !.listeners = @ \cup {[name |-> name, id |-> r.nextId]},
              !.nextId = @ + 1]

\* The registry as start() leaves it when it is not running, amm and clmm
\* being what onLogs does for the two programs: a throw ends start().
startRegistry(r, amm, clmm) ==
    IF amm = "throws" THEN r
    ELSE IF clmm = "throws" THEN subscribeToProgram(r, "AMM_V4")
    ELSE subscribeToProgram(subscribeToProgram(r, "AMM_V4"), "CLMM")

\* connection.removeOnLogsListener(subscriptionId) for the id stored under name.
removeOnLogsListener(r, name) ==
    [r EXCEPT !.listeners = {l \in @ : l.id # r.ids[name]}]

\* The for loop of stop() over the Map (AMM_V4 was inserted first), amm and
\* clmm being what removeOnLogsListener does: the registry it leaves and
\* whether it threw.
stopLoop(r, amm, clmm) ==
    LET first == IF r.ids["AMM_V4"] = 0 THEN [r |-> r, threw |-> FALSE]
                 ELSE IF amm = "throws" THEN [r |-> r, threw |-> TRUE]
                 ELSE [r |-> removeOnLogsListener(r, "AMM_V4"), threw |-> FALSE]
    IN  IF first.threw \/ r.ids["CLMM"] = 0 THEN first
        ELSE IF clmm = "throws" THEN [r |-> first.r, threw |-> TRUE]
        ELSE [r |-> removeOnLogsListener(first.r, "CLMM"), threw |-> FALSE]

\* The names the Map holds.
mapKeys(r) == {n \in PoolTypes : r.ids[n] # 0}

\* start(), from the call to its return or throw.
Start(amm, clmm) ==
    /\ registry.calls < MaxMonitorCalls
    /\ IF isRunning
       THEN /\ registry' = [registry EXCEPT !.calls = @ + 1]
            /\ UNCHANGED <<isRunning, subscriptions>>
       ELSE /\ registry' = [startRegistry(registry, amm, clmm) EXCEPT !.calls = @ + 1]
            /\ subscriptions' = mapKeys(startRegistry(registry, amm, clmm))
            /\ isRunning' = (amm = "ok" /\ clmm = "ok")
    /\ UNCHANGED <<now, pipelineVars, twitterVars, analyzerVars, bootVars, orderVars,
                   textVars, shutdownVars, listVars, timingVars, configureVars,
                   processedTransactions, lastProcessTime, extracting, extractCount,
                   emitted, arrivals, lastArrival>>

\* stop(), from the call to its return: a throw of removeOnLogsListener is
\* caught and logged, and the rest of the try block is skipped.
Stop(amm, clmm) ==
    /\ registry.calls < MaxMonitorCalls
    /\ IF stopLoop(registry, amm, clmm).threw
       THEN /\ registry' = [stopLoop(registry, amm, clmm).r EXCEPT !.calls = @ + 1]
            /\ UNCHANGED <<isRunning, subscriptions, processedTransactions, lastArrival>>
       ELSE /\ registry' = [stopLoop(registry, amm, clmm).r EXCEPT
                               !.calls = @ + 1,
                               !.ids = [n \in PoolTypes |-> 0]]
            /\ subscriptions' = {}
            /\ isRunning' = FALSE
            /\ processedTransactions' = cacheAfterStop
            /\ lastArrival' = IF cacheAfterStop = processedTransactions THEN lastArrival
                              ELSE [seq |-> arrivals, sig |-> "none", type |-> "none"]
    /\ UNCHANGED <<now, pipelineVars, twitterVars, analyzerVars, bootVars, orderVars,
                   textVars, shutdownVars, listVars, timingVars, configureVars,
                   lastProcessTime, extracting, extractCount, emitted, arrivals>>

NextSubscribe ==
    \/ \E amm \in CallOutcomes, clmm \in CallOutcomes : Start(amm, clmm)
    \/ \E amm \in CallOutcomes, clmm \in CallOutcomes : Stop(amm, clmm)

SpecSubscribe == Init /\ [][NextSubscribe]_vars

\* ======================================================== claims C1 - C5
\* A handler that has passed validateTrade and has neither recorded its
\* execution (updateCooldown) nor failed.
InGateSection(h) == pc[h] \in {"params", "perform"}

Scored(h) == pc[h] \in {"post", "nopost", "params", "perform"}

C4_OneNotificationPerScored == \A h \in Handlers : Scored(h) => notifyCalls[h] = 1

\* The six conditions of the decision rule for signal s in the current state,
\* liquidity and MIN_LIQUIDITY (in SOL) compared in lamports.
GateConditions(s) ==
    /\ config.AUTO_TRADE_ENABLED
    /\ ~config.TEST_MODE
    /\ s.riskScore >= config.RISK_THRESHOLD
    /\ s.liquidity >= config.MIN_LIQUIDITY * LamportsPerSol
    /\ ~s.isScam
    /\ now - lastTradeTime >= cooldownPeriod
    /\ dailyTradeCount[Today] < maxDailyTrades

AtGate(h) == pc[h] \in {"post", "nopost"}

\* C5: an opportunity at the gate goes on to the execution of a trade if and
\* only if the six conditions hold.
C5_ExecutedIffConditions ==
    [][\A h \in Handlers :
          (AtGate(h) /\ pc'[h] # pc[h])
              => (GateConditions(signal[h]) <=> pc'[h] = "params")]_vars

\* A step in which a log callback whose pattern matched has run its intake.
PatternArrival == lastArrival'.seq = arrivals + 1 /\ arrivals' = arrivals + 1

\* C6: when the same transaction signature is submitted twice back to back on
\* the same intake path, the second submission is a duplicate: it starts no
\* pool extraction (and so no scoring and no notification).
C6_BackToBackDuplicate ==
    [][(PatternArrival /\ lastArrival'.sig = lastArrival.sig
                       /\ lastArrival'.type = lastArrival.type)
          => extractCount' = extractCount]_vars

\* C7: on either intake path and at any arrival spacing, a signature that is
\* not in the seen-set is admitted (recorded and sent to extraction) and a
\* signature that is in the seen-set is rejected.
C7_AdmitExactlyOnce ==
    [][PatternArrival =>
          IF lastArrival'.sig \in processedTransactions
          THEN extractCount' = extractCount
          ELSE /\ lastArrival'.sig \in processedTransactions'
               /\ extractCount'[lastArrival'.sig]
                      = extractCount[lastArrival'.sig] + 1]_vars

\* C8: the seen-set is capped: after any sequence of observed events it never
\* holds more than threshold + 1 signatures.
C8_SeenSetCapped == Cardinality(processedTransactions) <= CacheThreshold + 1

\* The distance between two clock readings.
Distance(a, b) == IF a >= b THEN a - b ELSE b - a

\* C9: under every interleaving of the bot's postTweet calls, the timer-fired
\* calls and the queue processor, no two tweets are sent closer together than
\* tweetInterval.
C9_MinimumSpacing ==
    \A r1, r2 \in BagToSet(sent) :
        /\ CopiesIn(r1, sent) = 1
        /\ r1 # r2 => Distance(r1.at, r2.at) >= tweetInterval

HasTimer(p) == \E t \in BagToSet(timers) : t.content = p

Delivered(p) == \E r \in BagToSet(sent) : r.content = p

\* The payload is still somewhere in the sender: on a timer, in an awaited
\* API call, in the queue or in the queue processor's hands.
Held(p) ==
    \/ HasTimer(p)
    \/ \E c \in BagToSet(inflight) : c.content = p
    \/ \E i \in 1..Len(tweetQueue) : tweetQueue[i].content = p
    \/ drain.item.content = p

\* C10: a payload deferred because the spacing had not elapsed is not dropped:
\* it is eventually sent, or at the last clock tick explored it is still held
\* for a later attempt.
C10_DeferredEventuallySent ==
    \A p \in Payloads :
        HasTimer(p) ~> (Delivered(p) \/ (now = TwitterHorizon /\ Held(p)))

\* The retry-queue entries that hold payload p, the one in the queue
\* processor's hands included.
QueueEntries(p) ==
    Cardinality({i \in 1..Len(tweetQueue) : tweetQueue[i].content = p})
        + (IF drain.item.content = p THEN 1 ELSE 0)

\* C11: a payload in the retry queue is attempted at most MaxRetries times and
\* a failed send never creates an additional queue entry for it: every payload
\* has at most one entry, whose retry count is below MaxRetries.
C11_BoundedRetriesNoDuplicate ==
    /\ \A p \in Payloads : QueueEntries(p) <= 1
    /\ \A i \in 1..Len(tweetQueue) : tweetQueue[i].retries < MaxRetries

\* The tweet budget is used up and its window has not passed.
BudgetExhausted ==
    /\ rateLimits.remaining = 0
    /\ ~(rateLimits.resetTime # 0 /\ now > rateLimits.resetTime)

\* C12: while the budget is exhausted, a payload handed to postTweet (by the
\* bot or by a deferred tweet's timer) is appended to the tail of the retry
\* queue and no API call is started for it.
C12_ExhaustedBudgetQueues ==
    [][BudgetExhausted =>
          /\ submitted' = submitted + 1 =>
                /\ tweetQueue' = Append(tweetQueue, [content |-> submitted + 1,
                                                     retries |-> 0])
                /\ inflight' = inflight /\ timers' = timers
          /\ \A t \in BagToSet(timers) :
                (timers' # timers /\ timers' = BagRemove(timers, t)) =>
                    /\ tweetQueue' = Append(tweetQueue, [content |-> t.content,
                                                         retries |-> 0])
                    /\ inflight' = inflight]_vars

\* A payload was queued because the budget was exhausted: nothing has failed,
\* the budget is still exhausted and the payload sits in the queue unsent.
C12_Witness ==
    /\ failures = 0
    /\ BudgetExhausted
    /\ \E i \in 1..Len(tweetQueue) : ~Delivered(tweetQueue[i].content)

\* Handler h's trade is recorded in the gate by this step (updateCooldown).
RecordsExecution(h) ==
    /\ pc[h] = "perform"
    /\ pc'[h] # pc[h]
    /\ dailyTradeCount' # dailyTradeCount

ExecutionFails(h) ==
    /\ pc[h] = "perform"
    /\ pc'[h] # pc[h]
    /\ engineStats'.successfulTrades = engineStats.successfulTrades

Assessed == analysis.status = "returned" /\ ~analysis.failed

\* The factors whose own computation succeeded.
ComputedFactors == {f \in Factors : ~settled[f].threw}

\* C15: the composite is the weight-normalized mean over only the factors
\* that computed successfully: a failed factor adds neither a score to the
\* numerator nor its weight to the denominator.
C15_FailedFactorsExcluded ==
    Assessed =>
        /\ analysis.sum = SumOver(ComputedFactors,
                                  [f \in Factors |-> settled[f].value * riskWeights[f]])
        /\ analysis.weight = SumOver(ComputedFactors, riskWeights)

\* C16: for every combination of factor outcomes the composite analyzePool
\* returns is an integer in 1..10; it is 0 only when scoring failed as a
\* whole (the catch block of analyzePool ran).
C16_CompositeInRange ==
    analysis.status = "returned" =>
        /\ analysis.riskScore \in 0..10
        /\ analysis.riskScore = 0 => analysis.failed
        /\ Assessed => analysis.riskScore \in 1..10

\* An assessment was returned although every factor's computation failed.
C16_Witness == Assessed /\ ComputedFactors = {} /\ analysis.riskScore \in 1..10

\* Scoring failed as a whole and the composite is 0.
C16_WitnessFailed ==
    analysis.status = "returned" /\ analysis.failed /\ analysis.riskScore = 0

\* C17: the scam flag is true exactly when the mint is blacklisted or the
\* reported (rounded) riskScore is below 3; an assessment whose reported
\* composite is at least 3 for a non-blacklisted mint is never flagged.
C17_ScamFlagFromReportedScore ==
    analysis.status = "returned" =>
        (analysis.isScam <=> (analysis.blacklisted \/ analysis.riskScore < 3))

\* analyzePool has returned after waiting for its six factor computations.
ReturnedAfterFactors ==
    analysis.status = "returned" /\ \A f \in Factors : settled[f].status # "pending"

\* C18: analyzePool never throws: whichever factors and lookups fail, it
\* returns an assessment. A failing factor does not stop the others (all six
\* have a score), and a failed market-cap or liquidity lookup yields 0
\* without failing the assessment.
C18_AnalysisNeverThrows ==
    /\ analysis.status \in {"none", "running", "returned"}
    /\ ReturnedAfterFactors =>
          /\ Assessed
          /\ \A f \in Factors :
                settled[f].status = "fulfilled" /\ settled[f].value \in 1..10
          /\ ~analysis.supplyFound => analysis.marketCap = 0
          /\ analysis.liquidity >= 0

\* An assessment returned although a factor, the supply lookup and the
\* liquidity figure all failed.
C18_Witness ==
    /\ Assessed
    /\ ComputedFactors # Factors /\ ComputedFactors # {}
    /\ ~analysis.supplyFound /\ analysis.marketCap = 0
    /\ analysis.liquidity = 0 /\ analysis.tokenMetadata = "null"

\* C19: a failed notification send is never fatal: on every path (immediate,
\* deferred and fired by its timer, queue drain) the error is contained by a
\* handler, so no rejection is left unhandled.
C19_SendFailureContained == unhandled = 0

\* Handler h holds an opportunity without a base mint, as parseClmmInstruction
\* builds it.
Malformed(h) == signal[h].type # "none" /\ signal[h].coinMint = Undefined

\* C20: a malformed opportunity (no base mint or deployer, as produced for
\* CLMM pools) is dropped before scoring: its handler never waits on
\* analyzePool and never goes on to the notification.
C20_MalformedDropped ==
    \A h \in Handlers : Malformed(h) => pc[h] \notin {"analyze", "post", "nopost"}

\* No trace of the pipeline: nothing subscribed, detected, scored, notified
\* or traded.
PipelineUntouched ==
    /\ subscriptions = {} /\ ~isRunning
    /\ stats.poolsDetected = 0 /\ stats.tradesExecuted = 0
    /\ \A h \in Handlers : pc[h] = "idle" /\ notifyCalls[h] = 0
    /\ engineStats.totalTrades = 0 /\ engineStats.failedTrades = 0

\* C21: if configuration validation fails at startup, the pipeline never
\* starts: no program-log subscription is created and no opportunity is ever
\* scored, notified or traded.
C21_InvalidConfigNeverStarts ==
    boot.validation # "passed" => PipelineUntouched

\* Validation has failed and the process has exited.
C21_Witness == boot.validation = "failed" /\ boot.pc = "exited"

\* Handler h enters performTrade in this step.
EntersPerformTrade(h) == pc[h] # "perform" /\ pc'[h] = "perform"

ConfiguredMax100 ==
    100 * (IF order.maxTrade = NaN THEN DefaultMaxTradeMilliSol ELSE order.maxTrade)
        * (LamportsPerSol \div 1000)

Available90 ==
    IF order.walletBalance > ReserveMilliSol * (LamportsPerSol \div 1000)
    THEN 90 * (order.walletBalance - ReserveMilliSol * (LamportsPerSol \div 1000))
    ELSE 0

Liquidity5 == 5 * order.liquidity

Floor100 == 100 * FloorMilliSol * (LamportsPerSol \div 1000)

\* x is at most each of the three bounds.
WithinBounds(x) == x <= ConfiguredMax100 /\ x <= Available90 /\ x <= Liquidity5

\* C23: amountIn is min(configured maximum, 0.9 x available balance, 0.05 x
\* liquidity) in the smallest unit: it exceeds none of the three bounds and
\* is the greatest such whole amount; the order is refused exactly when that
\* minimum is below the floor of 0.001 native-asset units.
C23_OrderAmount ==
    /\ order.status = "built" =>
          /\ WithinBounds(100 * order.amountIn)
          /\ ~WithinBounds(100 * (order.amountIn + 1))
          /\ WithinBounds(Floor100)
    /\ order.status = "refused" => ~WithinBounds(Floor100)

\* An order bounded by the liquidity share alone has been built.
C23_Witness ==
    /\ order.status = "built"
    /\ Liquidity5 < ConfiguredMax100 /\ Liquidity5 < Available90
    /\ 100 * order.amountIn <= Liquidity5

\* C24: a payload longer than the limit of 280 characters is sent truncated
\* to at most that many characters and ending with the marker '...'; a
\* payload within the limit is sent unchanged.
C24_TruncatedWithEllipsis ==
    text.status # "none" =>
        IF Len(text.content) > TweetLimit
        THEN /\ Len(text.sent) <= TweetLimit
             /\ Len(text.sent) >= Len(Ellipsis)
             /\ SubSeq(text.sent, Len(text.sent) - 2, Len(text.sent)) = Ellipsis
             /\ \A i \in 1..(Len(text.sent) - 3) : text.sent[i] = text.content[i]
        ELSE text.sent = text.content

\* A payload over the limit has been sent.
C24_Witness == text.status = "sent" /\ Len(text.content) > TweetLimit

\* C25: when the liquidity factor is 1, the rounded composite is below 7 for
\* every attainable value of the other five factors, so the opportunity does
\* not reach the default risk threshold.
C25_LowLiquidityBelowThreshold ==
    (Assessed /\ settled["liquidity"].value = 1) =>
        analysis.riskScore < DefaultRiskThreshold

\* The pool of the scenario: found with liquidity 200, mint and freeze
\* authorities revoked, symbol and name without a denylisted word, a weekday
\* in the high-visibility hours, deployer balance 15, mint not blacklisted.
GoodPool ==
    /\ facts.poolFound /\ facts.liquidity = 200 * LamportsPerSol
    /\ ~facts.mintAuthority /\ ~facts.freezeAuthority
    /\ facts.metadata = "clean"
    /\ facts.hour \in 13..21 /\ facts.day \in 1..5
    /\ facts.balance = 15 * LamportsPerSol
    /\ ~facts.blacklisted

\* C26: for that pool the composite score is at least 8 and the scam flag is
\* false, for every pool age and every number of social links.
C26_GoodPoolScoresHigh ==
    (Assessed /\ GoodPool) => (analysis.riskScore >= 8 /\ ~analysis.isScam)

\* The scenario's pool at its lowest: less than an hour old, no social link.
C26_Witness ==
    /\ Assessed /\ GoodPool
    /\ facts.age = "lt1h"
    /\ ~facts.external_url /\ ~facts.website /\ ~facts.twitter
    /\ analysis.sum < 8 * analysis.weight

\* The first condition that fails for signal s in the order auto-trade
\* enabled, not test mode, score threshold, minimum liquidity, scam flag,
\* cooldown gate; "ok" when none fails.
FirstFailing(s) ==
    IF ~config.AUTO_TRADE_ENABLED THEN "disabled"
    ELSE IF config.TEST_MODE THEN "test mode"
    ELSE IF s.riskScore < config.RISK_THRESHOLD THEN "Risk score too low"
    ELSE IF s.liquidity < config.MIN_LIQUIDITY THEN "Insufficient liquidity"
    ELSE IF s.isScam THEN "Token is flagged as scam or blacklisted"
    ELSE IF isInCooldown THEN "Trading is in cooldown period"
    ELSE "ok"

\* Handler h leaves the gate in this step without going on to a trade.
SkippedAtGate(h) == AtGate(h) /\ pc'[h] # pc[h] /\ pc'[h] # "params"

\* C27: when a scored opportunity is not executed, the reason reported (what
\* the run from the gate decides and logs) is that of the first failing
\* condition in the fixed order.
C27_FirstFailingReported ==
    [][\A h \in Handlers :
          SkippedAtGate(h) => Decide(signal[h]) = FirstFailing(signal[h])]_vars

\* The send of the queued tweet the queue processor is waiting for is rejected.
DrainSendFails ==
    \E c \in BagToSet(inflight), code \in ErrorCodes :
        c.caller = "drain" /\ SendFails(c, code)

\* The item of the failed send with one more attempt counted.
RetriedItem == [content |-> drain.item.content, retries |-> drain.item.retries + 1]

\* After this step the retried item is the one being sent again, or the pass
\* has ended and it waits at the front of the queue.
RetriedNext ==
    \/ drain'.pc = "posting" /\ drain'.item = RetriedItem
    \/ /\ drain'.pc = "scheduled"
       /\ Len(tweetQueue') > 0
       /\ Head(tweetQueue') = RetriedItem

\* C28: the queue processor takes the entry at the head of the queue, and an
\* entry whose send failed with attempts left is back at the front and is the
\* next one attempted, with its attempt count kept.
C28_FifoFrontRetry ==
    [][/\ ((DrainWakes \/ DrainSleepEnds) /\ drain'.pc = "posting")
            => (Len(tweetQueue) > 0 /\ drain'.item = Head(tweetQueue))
       /\ (DrainSendFails /\ drain.item.retries + 1 < MaxRetries)
            => RetriedNext]_vars

\* A pass of the queue processor is between its first and its last statement.
LoopActive == drain.pc \in {"posting", "sleeping"}

\* A call of processQueuePeriodically gets past its guard in this step.
LoopEntered ==
    \/ ~isProcessingQueue /\ TwitterInitialize
    \/ DrainWakes
    \/ Shutdown /\ shut' = "draining"
    \/ ~isProcessingQueue /\ \E t \in BagToSet(wakeups) : ExtraWake(t)

\* No call of processQueuePeriodically starts a pass while one is active.
OneDrainLoop == [][LoopEntered => ~LoopActive]_vars

\* C29: at most one pass of the queue processor is active at any time, also
\* when shutdown calls it while the periodic one is scheduled or running, and
\* no step leaves a payload with more than one entry in the retry queue.
C29_OneDrainNoDuplicate ==
    [][/\ LoopEntered => ~LoopActive
       /\ \A p \in Payloads : QueueEntries(p)' <= 1]_vars

\* The attempts the entries of queue q still have before they are dropped.
RECURSIVE AttemptsIn(_)
AttemptsIn(q) ==
    IF q = <<>> THEN 0 ELSE (MaxRetries - Head(q).retries) + AttemptsIn(Tail(q))

\* The attempts left to the retry queue, the entry being sent included.
AttemptsLeft ==
    AttemptsIn(tweetQueue)
        + (IF drain.pc = "posting" THEN MaxRetries - drain.item.retries ELSE 0)

\* C30: the retry queue is worked off when no new payload is submitted, even
\* when the sends fail with 429: every failed send of a queued payload uses
\* up one of the attempts left to the queue, so that after finitely many
\* failures every entry has been sent or dropped and the pass ends.
C30_FailedSendUsesAttempt ==
    [][DrainSendFails => AttemptsLeft' < AttemptsLeft]_vars

\* C31: BLACKLIST_ENABLED toggles the blacklist gate: when it is false, a
\* mint on the blacklist is flagged only for its score and is executed
\* whenever it would be without the blacklist; when it is true, a mint on the
\* blacklist is flagged and not executed.
C31_BlacklistToggle ==
    (listing.status = "checked" /\ listing.listed)
        => IF listing.BLACKLIST_ENABLED
           THEN listing.isScam /\ ~listing.executes
           ELSE /\ listing.isScam <=> listing.lowScore
                /\ listing.executes <=> listing.gateOpen

\* The bonus of the window the hour falls in.
WindowBonus(w) == IF w = "high" THEN 2 ELSE IF w = "extended" THEN 1 ELSE 0

\* The market-timing factor is 5 plus the bonus of the hour's window plus 1
\* on a weekday, clamped to [1,10].
TimingScoreFormula ==
    timing.status = "scored"
        => timing.score = Clamp(5 + WindowBonus(timing.window)
                                  + (IF timing.day \in 1..5 THEN 1 ELSE 0))

\* C32: the market-timing factor follows the formula at every hour, and as
\* the clock goes round the day there is an hour at which the extended-window
\* bonus is applied.
C32_ExtendedWindowApplies ==
    /\ []TimingScoreFormula
    /\ <>(timing.status = "scored" /\ timing.window = "extended")

\* The values validateTrade compares the signal with.
engineMinRiskScore == OrDefault(env.RISK_THRESHOLD, DefaultRiskThreshold)

engineMinLiquidity ==
    OrDefault(env.MIN_LIQUIDITY * LamportsPerSol, DefaultMinLiquidity * LamportsPerSol)

\* The value of key k that the trading engine (and, for the cooldown, the
\* gate through isInCooldown) enforces is the one in the configuration.
Enforced(k) ==
    CASE k = "RISK_THRESHOLD" -> engineMinRiskScore = config.RISK_THRESHOLD
      [] k = "MIN_LIQUIDITY" ->
            engineMinLiquidity = config.MIN_LIQUIDITY * LamportsPerSol
      [] k = "COOLDOWN_PERIOD" -> cooldownPeriod = config.COOLDOWN_PERIOD * MsPerSec
      [] k = "MAX_DAILY_TRADES" -> maxDailyTrades = config.MAX_DAILY_TRADES
      [] k = "AUTO_TRADE_ENABLED" -> env.AUTO_TRADE_ENABLED = config.AUTO_TRADE_ENABLED
      [] OTHER -> TRUE

\* C33: at every execution decision made after a successful updateConfig,
\* the gate values it set are the values enforced, by the gate and by the
\* trading engine's validation alike.
C33_UpdatedValuesEnforced ==
    configured.decision.engine # "none"
        => \A k \in configured.keys : Enforced(k)

\* C37: updateConfig is all-or-nothing: a call that throws leaves the
\* configuration as it was before the call.
C37_UpdateAllOrNothing ==
    [][\A updates \in UpdateInputs :
          (UpdateConfig(updates) /\ updateConfig(config, updates).threw)
              => config' = config]_vars

\* ====================================================== claims C34 - C40
\* The refusals of validateTrade for the conditions the gate tests too.
SharedRejections ==
    { "Trading is in cooldown period", "Risk score too low",
      "Insufficient liquidity", "Token is flagged as scam or blacklisted" }

\* C34: gate and engine agree: when shouldExecuteTrade admits the signal of a
\* handler at the gate, the engine (executeTrade up to validateTrade) does not
\* reject it for score, liquidity, scam flag or cooldown.
C34_GateEngineAgree ==
    [][\A h \in Handlers :
          (AtGate(h) /\ pc'[h] # pc[h] /\ shouldExecuteTrade(signal[h]))
              => Decide(signal[h]) \notin SharedRejections]_vars

\* A step in which performTrade resolved for some handler: a trade was
\* actually performed.
TradePerformed ==
    \E h \in Handlers : pc[h] = "perform" /\ pc'[h] = "idle"
                         /\ engineStats'.successfulTrades = engineStats.successfulTrades + 1

\* C35: stats.tradesExecuted is incremented only by a step in which a trade
\* was performed: not when executeTrade returns without trading (paused,
\* auto-trading disabled in the engine) or throws.
C35_CountsPerformedTrades ==
    [][stats'.tradesExecuted # stats.tradesExecuted => TradePerformed]_vars

\* C36: after any sequence of successful and failed trade attempts the
\* engine statistics satisfy totalTrades = successfulTrades + failedTrades.
C36_TradeStatsAddUp ==
    engineStats.totalTrades = engineStats.successfulTrades + engineStats.failedTrades

\* The remaining capacity stays within the window's budget.
RemainingInRange ==
    0 <= rateLimits.remaining /\ rateLimits.remaining <= DefaultTweetBudget

\* The window reset time is set exactly when capacity has been used.
ResetTimeSetIffUsed ==
    rateLimits.resetTime # 0 <=> rateLimits.remaining < DefaultTweetBudget

\* C38: in every reachable state, under any interleaving of sends, the
\* remaining capacity is between 0 and the budget of a window, and the
\* reset time is set exactly when remaining is below the budget.
C38_RateCounterInRange == RemainingInRange /\ ResetTimeSetIffUsed

\* The step in which shutdown() marks the bot uninitialized and returns.
MarkedUninitialized == isInitialized /\ ~isInitialized' /\ shut' = "done"

\* C39: when shutdown marks the bot uninitialized and returns, the retry
\* queue is empty: every queued payload has been sent or dropped, also when
\* a drain pass was in progress or the rate budget was used up at the call.
C39_ShutdownDrainsQueue ==
    [][MarkedUninitialized => Len(tweetQueue) = 0]_vars

\* isRunning is true exactly when program-log subscriptions are registered.
RunningIffSubscribed == isRunning <=> subscriptions # {}

\* Every listener on the connection is the one the Map holds for its name:
\* none has been overwritten or forgotten without having been removed.
NoForgottenListener ==
    \A l \in registry.listeners : registry.ids[l.name] = l.id

\* A call of start() while the monitor is running.
StartWhileRunning ==
    isRunning /\ \E amm \in CallOutcomes, clmm \in CallOutcomes : Start(amm, clmm)

\* C40: after any sequence of start and stop calls, failing ones included,
\* isRunning is true exactly when subscriptions are registered, start while
\* running registers no additional subscription, and no registered
\* subscription is overwritten or forgotten without having been removed.
C40_SubscriptionsConsistent ==
    /\ [](RunningIffSubscribed /\ NoForgottenListener)
    /\ [][StartWhileRunning => registry'.listeners = registry.listeners]_vars

====
